---- MODULE Spec2Model ----
(***************************************************************************)
(* InkPages: the in-page reader of src/content/content.js.                 *)
(*                                                                         *)
(* The content script is single threaded.  Every action below is one       *)
(* macrotask (a message, a DOM event, a timer, an animation frame, a       *)
(* storage or fetch completion) together with the microtasks it starts,    *)
(* i.e. the code that runs up to the next await on a pending operation.    *)
(* Handlers are operators from a program state record to a program state   *)
(* record, so that a call in the source is an application in the model.    *)
(***************************************************************************)
EXTENDS Integers, Sequences, FiniteSets, TLC

(***************************************************************************)
(* Bounds of the model                                                     *)
(***************************************************************************)
\* largest number of columns the browser lays the content out in
MaxCols == 2
\* user and environment events are accepted while fewer operations are pending
MaxPending == 2
\* widest viewport of the pure layout check, in pixels
MaxViewport == 40
\* widest scrollable width of the pure layout check, in pixels
MaxScroll == 200
\* milliseconds the clock advances while reading positions are saved
MaxTicks == 2
\* saves of a reading position that are started
MaxSaves == 3
\* p elements of one text length in a document
MaxParagraphs == 4
\* elements of the markup given to sanitizeHTML
MaxElements == 1
\* line feeds the content of an element starts with
MaxNewlines == 2
\* nodes of the main content area extractListing walks
MaxNodes == 2
\* anchors of one container
MaxLinks == 2
\* articles the anchors of a page link to
MaxPaths == 2

\* the step of the clock in ms, the last clock value and the number of
\* resize events
ClockStep == 75

MaxClock == 600

MaxResizes == 3

(***************************************************************************)
(* Program constants                                                       *)
(***************************************************************************)
columnGap == 50

\* widths the content viewport takes while the overlay is displayed
ViewportWidths == {30}

Origin == "site"

NoPosition == [page |-> -1, totalPages |-> 0]

\* a page: what isArticlePage, extractArticle and extractListing return on
\* it.  extractListing is never run on a page that isArticlePage accepts.
Pages ==
  { p \in [isArticle : BOOLEAN, extract : {"ok", "null", "throw"},
           listing : {"sections", "empty"}] :
      /\ p.isArticle => p.listing = "empty"
      /\ p.extract = "throw" => p.isArticle }

Max(a, b) == IF a >= b THEN a ELSE b
Min(a, b) == IF a <= b THEN a ELSE b

\* Math.ceil(a / b) for a >= 0, b > 0
Ceil(a, b) == (a + b - 1) \div b

(***************************************************************************)
(* State                                                                   *)
(***************************************************************************)
VARIABLES
  \* content.js module state
  isReaderActive, isListingMode, readerOverlay, articleData, listingData,
  \* the document and the overlay element
  docTitle, bodyOverflow, overlayAttached, overlayDisplay, readerInit,
  content, notification,
  \* initializeReader closure state
  currentPage, totalPages, pageWidth, settings,
  \* styles and texts written by the pagination engine
  contentOffset, pageIndicator, exactWidth, measured,
  \* the page
  page,
  \* browser.storage
  readerEnabledOrigins, readingPosition, readerSettings, storageQ,
  \* pending callbacks
  fetchPending, rafQ, settingsTimers, resizeTimeout, autoTimer,
  \* the handler that ran last
  lastEvent,
  \* the stored map of reading positions, the writes of it that storage has
  \* not applied yet, Date.now() and the save that completed last
  readingPositions, positionSets, now, lastSaved,
  \* the document the classifier reads, what it has returned, and the
  \* state of the documents the probe and the extractor were given
  doc, classified, seen,
  \* the markup handed to sanitizeHTML and the strings it has returned
  fragment, sanitized,
  \* the main content area extractListing walks and what it has returned
  mainContent, extracted,
  \* the font size and the line height (in tenths) the settings panel holds
  fontSize, lineHeight,
  \* the clock in ms, the pending timers of the resize listener, the timer
  \* id its closure holds, and the resize events and layout runs so far
  clock, timers, resizeTimeoutId, resizeLog,
  \* the list stored under readerEnabledOrigins, the storage requests of
  \* the tabs in the order they were issued, and the state of each tab
  storedOrigins, tabQ, tabs

mainVars ==
  << isReaderActive, isListingMode, readerOverlay, articleData, listingData,
     docTitle, bodyOverflow, overlayAttached, overlayDisplay, readerInit,
     content, notification,
     currentPage, totalPages, pageWidth, settings,
     contentOffset, pageIndicator, exactWidth, measured,
     page,
     readerEnabledOrigins, readingPosition, readerSettings, storageQ,
     fetchPending, rafQ, settingsTimers, resizeTimeout, autoTimer,
     lastEvent >>

positionVars == << readingPositions, positionSets, now, lastSaved >>

classifyVars == << doc, classified, seen >>

sanitizeVars == << fragment, sanitized >>

extractVars == << mainContent, extracted >>

panelVars == << fontSize, lineHeight >>

resizeVars == << clock, timers, resizeTimeoutId, resizeLog >>

originVars == << storedOrigins, tabQ, tabs >>

vars ==
  << mainVars, positionVars, classifyVars, sanitizeVars, extractVars,
     panelVars, resizeVars, originVars >>

\* the program state as one record
S ==
  [ isReaderActive |-> isReaderActive, isListingMode |-> isListingMode,
    readerOverlay |-> readerOverlay, articleData |-> articleData,
    listingData |-> listingData,
    docTitle |-> docTitle, bodyOverflow |-> bodyOverflow,
    overlayAttached |-> overlayAttached, overlayDisplay |-> overlayDisplay,
    readerInit |-> readerInit, content |-> content,
    notification |-> notification,
    currentPage |-> currentPage, totalPages |-> totalPages,
    pageWidth |-> pageWidth, settings |-> settings,
    contentOffset |-> contentOffset, pageIndicator |-> pageIndicator,
    exactWidth |-> exactWidth, measured |-> measured,
    page |-> page,
    readerEnabledOrigins |-> readerEnabledOrigins,
    readingPosition |-> readingPosition, readerSettings |-> readerSettings,
    storageQ |-> storageQ,
    fetchPending |-> fetchPending, rafQ |-> rafQ,
    settingsTimers |-> settingsTimers, resizeTimeout |-> resizeTimeout,
    autoTimer |-> autoTimer ]

Event(op, arg, flag) == [op |-> op, arg |-> arg, flag |-> flag]

\* the step that leaves the program in state r after handler ev
CommitMain(r, ev) ==
  /\ isReaderActive' = r.isReaderActive
  /\ isListingMode' = r.isListingMode
  /\ readerOverlay' = r.readerOverlay
  /\ articleData' = r.articleData
  /\ listingData' = r.listingData
  /\ docTitle' = r.docTitle
  /\ bodyOverflow' = r.bodyOverflow
  /\ overlayAttached' = r.overlayAttached
  /\ overlayDisplay' = r.overlayDisplay
  /\ readerInit' = r.readerInit
  /\ content' = r.content
  /\ notification' = r.notification
  /\ currentPage' = r.currentPage
  /\ totalPages' = r.totalPages
  /\ pageWidth' = r.pageWidth
  /\ settings' = r.settings
  /\ contentOffset' = r.contentOffset
  /\ pageIndicator' = r.pageIndicator
  /\ exactWidth' = r.exactWidth
  /\ measured' = r.measured
  /\ page' = r.page
  /\ readerEnabledOrigins' = r.readerEnabledOrigins
  /\ readingPosition' = r.readingPosition
  /\ readerSettings' = r.readerSettings
  /\ storageQ' = r.storageQ
  /\ fetchPending' = r.fetchPending
  /\ rafQ' = r.rafQ
  /\ settingsTimers' = r.settingsTimers
  /\ resizeTimeout' = r.resizeTimeout
  /\ autoTimer' = r.autoTimer
  /\ lastEvent' = ev

\* the same step in the content script of a document that is not examined
Commit(r, ev) ==
  /\ CommitMain(r, ev)
  /\ UNCHANGED << originVars, positionVars, classifyVars, sanitizeVars, extractVars, panelVars, resizeVars >>

(***************************************************************************)
(* browser.storage: requests are served in the order they were issued,     *)
(* per storage area.  A request carries the continuation that awaits it.   *)
(***************************************************************************)
Request(area, kind, cont) ==
  [area |-> area, kind |-> kind, cont |-> cont,
   origins |-> {}, position |-> NoPosition, listingModeEnabled |-> TRUE]

Issue(s, req) == [s EXCEPT !.storageQ = Append(@, req)]

(***************************************************************************)
(* Pagination engine                                                       *)
(***************************************************************************)
\* saveReadingPosition up to its first await
saveReadingPosition(s) ==
  IF s.articleData = "null" THEN s
  ELSE Issue(s, Request("local", "get", "savePosition"))

\* updatePageDisplay that leaves the content where it was
updatePageDisplayNoTransform(s) ==
  saveReadingPosition(
    [s EXCEPT !.pageIndicator = <<s.currentPage + 1, s.totalPages>>])

updatePageDisplay(s) ==
  saveReadingPosition(
    [s EXCEPT !.contentOffset = s.currentPage * s.pageWidth,
              !.pageIndicator = <<s.currentPage + 1, s.totalPages>>])

\* the page count without the decrement of an empty last page
PageCountNoDecrement(vw, sw) ==
  Max(1, Ceil(sw + columnGap, vw + columnGap))

\* the page count whose decrement is not held at one page
PageCountNoFloor(vw, sw) ==
  LET pw == vw + columnGap
      first == Max(1, Ceil(sw + columnGap, pw))
      lastPageStart == (first - 1) * pw
  IN  IF lastPageStart >= sw THEN first - 1 ELSE first

\* the page count with the quotient rounded down
PageCountRoundedDown(vw, sw) ==
  LET pw == vw + columnGap
      first == Max(1, (sw + columnGap) \div pw)
      lastPageStart == (first - 1) * pw
  IN  IF lastPageStart >= sw THEN Max(1, first - 1) ELSE first

\* the page count of setupPagination for a measured viewport width and
\* scrollable width
PageCount(vw, sw) ==
  LET pw == vw + columnGap
      first == Max(1, Ceil(sw + columnGap, pw))
      lastPageStart == (first - 1) * pw
  IN  IF lastPageStart >= sw THEN Max(1, first - 1) ELSE first

\* setupPagination that does not reset the width it fixed in the run before,
\* so that the width it measures contains it
setupPaginationDrifting(s, vw, sw) ==
  LET n == PageCount(vw, sw + s.exactWidth)
  IN  updatePageDisplay(
        [s EXCEPT !.measured = [viewportWidth |-> vw, scrollWidth |-> sw],
                  !.pageWidth = vw + columnGap,
                  !.totalPages = n,
                  !.exactWidth = n * vw + (n - 1) * columnGap,
                  !.currentPage = Min(s.currentPage, Max(0, n - 1))])

\* setupPagination with the two readings the browser returns
setupPagination(s, vw, sw) ==
  LET n == PageCount(vw, sw)
  IN  updatePageDisplay(
        [s EXCEPT !.measured = [viewportWidth |-> vw, scrollWidth |-> sw],
                  !.pageWidth = vw + columnGap,
                  !.totalPages = n,
                  !.exactWidth = n * vw + (n - 1) * columnGap,
                  !.currentPage = Min(s.currentPage, Max(0, n - 1))])

nextPage(s) ==
  IF s.currentPage < s.totalPages - 1
  THEN updatePageDisplay([s EXCEPT !.currentPage = @ + 1])
  ELSE s

\* prevPage without its guard
prevPageUnguarded(s) ==
  updatePageDisplay([s EXCEPT !.currentPage = @ - 1])

prevPage(s) ==
  IF s.currentPage > 0
  THEN updatePageDisplay([s EXCEPT !.currentPage = @ - 1])
  ELSE s

\* goToPage without its range check
goToPageUnchecked(s, pageNum) ==
  updatePageDisplay([s EXCEPT !.currentPage = pageNum])

goToPage(s, pageNum) ==
  IF pageNum >= 0 /\ pageNum < s.totalPages
  THEN updatePageDisplay([s EXCEPT !.currentPage = pageNum])
  ELSE s

\* the overlay is rendered by the browser
Displayed(s) == s.overlayAttached /\ s.overlayDisplay # "none"

\* the readings getBoundingClientRect().width and scrollWidth can return:
\* zero for an element that is not displayed; otherwise the width the window
\* gives the viewport and the width of the columns the content fills
ColumnsWidth(vw, c) == IF c = 0 THEN 0 ELSE c * vw + (c - 1) * columnGap

Readings(s) ==
  IF ~Displayed(s) THEN { <<0, 0>> }
  ELSE { <<vw, ColumnsWidth(vw, c)>> : vw \in ViewportWidths, c \in 0..MaxCols }

(***************************************************************************)
(* Mode coordinator                                                        *)
(***************************************************************************)
showNotification(s, message) == [s EXCEPT !.notification = message]

\* enableReaderForOrigin and disableReaderForOrigin up to their first await
enableReaderForOrigin(s) == Issue(s, Request("local", "get", "enable"))

disableReaderForOrigin(s) == Issue(s, Request("local", "get", "disable"))

\* deactivateReaderMode that leaves the title of the reader
deactivateReaderModeKeepsTitle(s) ==
  IF ~s.isReaderActive THEN s
  ELSE disableReaderForOrigin(
         [s EXCEPT !.overlayDisplay =
                     IF s.readerOverlay # "null" THEN "none" ELSE @,
                   !.bodyOverflow = "",
                   !.isReaderActive = FALSE,
                   !.isListingMode = FALSE])

deactivateReaderMode(s) ==
  IF ~s.isReaderActive THEN s
  ELSE disableReaderForOrigin(
         [s EXCEPT !.overlayDisplay =
                     IF s.readerOverlay # "null" THEN "none" ELSE @,
                   !.docTitle = "original",
                   !.bodyOverflow = "",
                   !.isReaderActive = FALSE,
                   !.isListingMode = FALSE])

\* renderArticle: the content is attached and the first frame is requested
renderArticle(s) ==
  IF ~s.readerInit \/ s.articleData = "null" THEN s
  ELSE [s EXCEPT !.content = "article", !.rafQ = Append(@, "article1")]

renderListing(s) ==
  IF ~s.readerInit \/ s.listingData = "null" THEN s
  ELSE [s EXCEPT !.content = "listing", !.rafQ = Append(@, "listing1")]

\* createReaderOverlay from "Show overlay" on
showOverlay(s) ==
  LET shown == [s EXCEPT !.overlayDisplay = "block", !.bodyOverflow = "hidden"]
  IN  IF shown.isListingMode /\ shown.listingData # "null"
      THEN renderListing([shown EXCEPT !.docTitle = "listing"])
      ELSE IF shown.articleData # "null"
           THEN renderArticle([shown EXCEPT !.docTitle = "article"])
           ELSE shown

\* loadSettings up to its await
loadSettings(s) == Issue(s, Request("sync", "get", "loadSettings"))

\* initializeReader: the closure state is created, the settings are requested
\* and the listeners are registered
initializeReader(s) ==
  loadSettings(
    [s EXCEPT !.readerInit = TRUE,
              !.currentPage = 0, !.totalPages = 1, !.pageWidth = 0,
              !.settings = [listingModeEnabled |-> TRUE]])

\* activateReaderMode and activateListingMode after createReaderOverlay has
\* returned
activated(s) == enableReaderForOrigin([s EXCEPT !.isReaderActive = TRUE])

\* the activation that awaits the resources of a new overlay: its mode and
\* its caller (the toggle or the auto-activation timer)
NoFetch == [mode |-> "none", by |-> "none"]

\* createReaderOverlay as called by an activation: a new overlay waits for
\* its resources, an existing one is shown at once
createReaderOverlay(s, mode, by) ==
  IF s.readerOverlay = "null"
  THEN [s EXCEPT !.readerOverlay = "created",
                 !.fetchPending = [mode |-> mode, by |-> by]]
  ELSE activated(showOverlay(s))

\* activateReaderMode without the check of the extracted article
activateReaderModeNoNullCheck(s, by) ==
  IF s.isReaderActive THEN s
  ELSE CASE s.page.extract = "throw" ->
              showNotification(s, "Failed to activate reader mode")
         [] s.page.extract = "null" ->
              createReaderOverlay([s EXCEPT !.articleData = "null"],
                                  "article", by)
         [] OTHER ->
              createReaderOverlay([s EXCEPT !.articleData = "data"],
                                  "article", by)

activateReaderMode(s, by) ==
  IF s.isReaderActive THEN s
  ELSE CASE s.page.extract = "throw" ->
              showNotification(s, "Failed to activate reader mode")
         [] s.page.extract = "null" ->
              showNotification([s EXCEPT !.articleData = "null"],
                               "Could not extract article from this page")
         [] OTHER ->
              createReaderOverlay([s EXCEPT !.articleData = "data"],
                                  "article", by)

\* activateListingMode that tries the article when the listing is empty
activateListingModeFallsBack(s, by) ==
  IF s.isReaderActive THEN s
  ELSE IF s.page.listing = "empty"
       THEN activateReaderMode([s EXCEPT !.listingData = "empty"], by)
       ELSE createReaderOverlay(
              [s EXCEPT !.listingData = "sections", !.isListingMode = TRUE],
              "listing", by)

activateListingMode(s, by) ==
  IF s.isReaderActive THEN s
  ELSE IF s.page.listing = "empty"
       THEN [s EXCEPT !.listingData = "empty"]
       ELSE createReaderOverlay(
              [s EXCEPT !.listingData = "sections", !.isListingMode = TRUE],
              "listing", by)

\* toggleReaderMode up to its await on the settings
toggleReaderMode(s) ==
  IF s.isReaderActive THEN deactivateReaderMode(s)
  ELSE IF s.page.isArticle THEN activateReaderMode(s, "toggle")
       ELSE Issue(s, Request("sync", "get", "toggleSettings"))

\* checkAutoActivation up to its first await
checkAutoActivation(s) == Issue(s, Request("local", "get", "autoOrigins"))

(***************************************************************************)
(* Settings                                                                *)
(***************************************************************************)
\* applySettings: the styles are set and a layout is scheduled in 50 ms
applySettings(s) ==
  IF s.articleData # "null"
  THEN [s EXCEPT !.settingsTimers = @ + 1]
  ELSE s

saveSettings(s) ==
  Issue(s, [Request("sync", "set", "saveSettings")
              EXCEPT !.listingModeEnabled = s.settings.listingModeEnabled])

(***************************************************************************)
(* Continuations of the storage requests                                   *)
(***************************************************************************)
enableContinue(s) ==
  IF Origin \notin s.readerEnabledOrigins
  THEN Issue(s, [Request("local", "set", "enable")
                   EXCEPT !.origins = s.readerEnabledOrigins \cup {Origin}])
  ELSE s

disableContinue(s) ==
  IF Origin \in s.readerEnabledOrigins
  THEN Issue(s, [Request("local", "set", "disable")
                   EXCEPT !.origins = s.readerEnabledOrigins \ {Origin}])
  ELSE s

\* toggleReaderMode after the settings have been read
toggleContinue(s) ==
  IF s.readerSettings.listingModeEnabled
  THEN activateListingMode(s, "toggle")
  ELSE activateReaderMode(s, "toggle")

\* checkAutoActivation that does not look the origin up in the list
autoOriginsContinueUnlisted(s) ==
  Issue(s, Request("sync", "get", "autoSettings"))

\* checkAutoActivation after the enabled origins have been read
autoOriginsContinue(s) ==
  IF Origin \notin s.readerEnabledOrigins THEN s
  ELSE Issue(s, Request("sync", "get", "autoSettings"))

\* checkAutoActivation after the settings have been read: the 500 ms timer
\* is armed and keeps the value of listingModeEnabled it was armed with
autoSettingsContinue(s) ==
  [s EXCEPT !.autoTimer =
     IF s.readerSettings.listingModeEnabled THEN "listing" ELSE "article"]

loadSettingsContinue(s) ==
  applySettings(
    [s EXCEPT !.settings =
       [listingModeEnabled |-> s.readerSettings.listingModeEnabled]])

\* saveReadingPosition after the positions have been read: the entry is
\* built from the page displayed now
savePositionContinue(s) ==
  Issue(s, [Request("local", "set", "savePosition")
              EXCEPT !.position =
                [page |-> s.currentPage, totalPages |-> s.totalPages]])

\* loadReadingPosition after the positions have been read, and the restore
\* of renderArticle that awaits it
loadPositionContinue(s) ==
  LET savedPage ==
        IF s.readingPosition = NoPosition THEN 0 ELSE s.readingPosition.page
  IN  IF savedPage > 0 THEN goToPage(s, savedPage) ELSE s

Continue(s, q) ==
  CASE q.kind = "set" /\ q.cont \in {"enable", "disable"} ->
         [s EXCEPT !.readerEnabledOrigins = q.origins]
    [] q.kind = "set" /\ q.cont = "savePosition" ->
         [s EXCEPT !.readingPosition = q.position]
    [] q.kind = "set" /\ q.cont = "saveSettings" ->
         [s EXCEPT !.readerSettings =
            [listingModeEnabled |-> q.listingModeEnabled]]
    [] q.kind = "get" /\ q.cont = "enable" -> enableContinue(s)
    [] q.kind = "get" /\ q.cont = "disable" -> disableContinue(s)
    [] q.kind = "get" /\ q.cont = "toggleSettings" -> toggleContinue(s)
    [] q.kind = "get" /\ q.cont = "autoOrigins" -> autoOriginsContinue(s)
    [] q.kind = "get" /\ q.cont = "autoSettings" -> autoSettingsContinue(s)
    [] q.kind = "get" /\ q.cont = "loadSettings" -> loadSettingsContinue(s)
    [] q.kind = "get" /\ q.cont = "savePosition" -> savePositionContinue(s)
    [] q.kind = "get" /\ q.cont = "loadPosition" -> loadPositionContinue(s)

\* the position in the queue of the newest request of a storage area
Newest(q, area) ==
  CHOOSE i \in 1..Len(q) :
    /\ q[i].area = area
    /\ \A j \in (i + 1)..Len(q) : q[j].area # area

\* the position in the queue of the oldest request of a storage area
Oldest(q, area) ==
  CHOOSE i \in 1..Len(q) :
    /\ q[i].area = area
    /\ \A j \in 1..(i - 1) : q[j].area # area

Without(q, i) == [j \in 1..(Len(q) - 1) |-> IF j < i THEN q[j] ELSE q[j + 1]]

(***************************************************************************)
(* Overlay resources                                                       *)
(***************************************************************************)
\* createReaderOverlay after reader.css and reader.html have been fetched,
\* and the activation that awaits it
overlayLoaded(s) ==
  activated(showOverlay(initializeReader(
    [s EXCEPT !.fetchPending = NoFetch, !.overlayAttached = TRUE])))

\* a fetch is rejected: the activation that awaits the overlay catches it
overlayFailed(s) ==
  LET t == [s EXCEPT !.fetchPending = NoFetch]
  IN  IF s.fetchPending.mode = "article"
      THEN showNotification(t, "Failed to activate reader mode")
      ELSE t

(***************************************************************************)
(* Animation frames                                                        *)
(***************************************************************************)
\* the callbacks requested before a frame run in it, in order; what they
\* request runs in the next frame
RECURSIVE runFrame(_, _, _)
runFrame(s, callbacks, r) ==
  IF callbacks = << >> THEN s
  ELSE LET c == Head(callbacks)
           t == CASE c = "article1" -> [s EXCEPT !.rafQ = Append(@, "article2")]
                  [] c = "listing1" -> [s EXCEPT !.rafQ = Append(@, "listing2")]
                  [] c = "article2" ->
                       Issue(setupPagination(s, r[1], r[2]),
                             Request("local", "get", "loadPosition"))
                  [] c = "listing2" -> setupPagination(s, r[1], r[2])
       IN  runFrame(t, Tail(callbacks), r)

\* the 50 ms timer without the reset of the current page
settingsTimerKeepsPage(s, r) ==
  setupPagination([s EXCEPT !.settingsTimers = @ - 1], r[1], r[2])

\* the 50 ms timer of applySettings
settingsTimer(s, r) ==
  setupPagination([s EXCEPT !.settingsTimers = @ - 1, !.currentPage = 0],
                  r[1], r[2])

\* the 150 ms timer of the resize listener
resizeTimer(s, r) ==
  setupPagination([s EXCEPT !.resizeTimeout = FALSE], r[1], r[2])

\* the resize listener: the pending timer is cleared and a new one armed
resizeListener(s) ==
  IF s.readerInit THEN [s EXCEPT !.resizeTimeout = TRUE] ELSE s

\* the 500 ms timer of checkAutoActivation
autoActivate(s) ==
  LET t == [s EXCEPT !.autoTimer = "none"]
  IN  IF s.page.isArticle THEN activateReaderMode(t, "auto")
      ELSE IF s.autoTimer = "listing" THEN activateListingMode(t, "auto")
           ELSE t

(***************************************************************************)
(* Initial state: the content script has been injected into a page and     *)
(* checkAutoActivation has issued its first storage request.               *)
(***************************************************************************)
MainInit ==
  /\ isReaderActive = FALSE
  /\ isListingMode = FALSE
  /\ readerOverlay = "null"
  /\ articleData = "null"
  /\ listingData = "null"
  /\ docTitle = "original"
  /\ bodyOverflow = ""
  /\ overlayAttached = FALSE
  /\ overlayDisplay = ""
  /\ readerInit = FALSE
  /\ content = "none"
  /\ notification = "none"
  /\ currentPage = 0
  /\ totalPages = 1
  /\ pageWidth = 0
  /\ settings = [listingModeEnabled |-> TRUE]
  /\ contentOffset = 0
  /\ pageIndicator = <<1, 1>>
  /\ exactWidth = 0
  /\ measured = [viewportWidth |-> -1, scrollWidth |-> -1]
  /\ page \in Pages
  /\ readerEnabledOrigins \in {{}, {Origin}}
  /\ readingPosition \in {NoPosition, [page |-> 1, totalPages |-> 2]}
  /\ readerSettings \in [listingModeEnabled : BOOLEAN]
  /\ storageQ = << Request("local", "get", "autoOrigins") >>
  /\ fetchPending = NoFetch
  /\ rafQ = << >>
  /\ settingsTimers = 0
  /\ resizeTimeout = FALSE
  /\ autoTimer = "none"
  /\ lastEvent = Event("load", 0, FALSE)

\* no reading position of another article is stored
PositionsIdle ==
  /\ readingPositions = << >>
  /\ positionSets = << >>
  /\ now = 0
  /\ lastSaved = [key |-> 0, by |-> "none", n |-> 0]

\* the document is not examined
ClassifyIdle ==
  /\ doc = [path |-> "/a"]
  /\ classified = "none"
  /\ seen = [probe |-> "none", extractor |-> "none"]

\* no markup is being sanitized
SanitizeIdle ==
  /\ fragment = << >>
  /\ sanitized = << >>

\* no listing is being extracted
ExtractIdle ==
  /\ mainContent = << >>
  /\ extracted = "none"

\* the settings panel holds the default settings
PanelIdle ==
  /\ fontSize = 18
  /\ lineHeight = 18

\* no resize event has happened and no timer of the listener is pending
ResizeIdle ==
  /\ clock = 0
  /\ timers = {}
  /\ resizeTimeoutId = 0
  /\ resizeLog = << >>

\* the origins of the two tabs
TabOrigins == {"a", "b"}

NoOperation == [busy |-> FALSE, last |-> "none", ops |-> 0]

\* no tab has enabled or disabled the reader for its origin
OriginsIdle ==
  /\ storedOrigins = << >>
  /\ tabQ = << >>
  /\ tabs = [o \in TabOrigins |-> NoOperation]

Init ==
  /\ MainInit
  /\ PositionsIdle
  /\ ClassifyIdle
  /\ SanitizeIdle
  /\ ExtractIdle
  /\ PanelIdle
  /\ ResizeIdle
  /\ OriginsIdle

(***************************************************************************)
(* Actions                                                                 *)
(***************************************************************************)
\* user and environment events are accepted while little is pending
Pending ==
  Len(storageQ) + Len(rafQ) + settingsTimers + (IF resizeTimeout THEN 1 ELSE 0)

Busy == Pending >= MaxPending

\* the controls of the reader can be used
Usable == readerInit /\ (isReaderActive \/ Displayed(S))

\* onMessage TOGGLE_READER
ToggleMessage ==
  /\ ~Busy
  /\ Commit(toggleReaderMode(S), Event("toggle", 0, isReaderActive))

\* onMessage CHECK_READER_STATE: the response is the flag of the event
QueryMessage ==
  /\ ~Busy
  /\ Commit(S, Event("query", 0, isReaderActive))

\* tap zones, swipes and the arrow, space and page keys
NextPage ==
  /\ Usable /\ ~Busy
  /\ Commit(nextPage(S), Event("nextPage", 0, FALSE))

PrevPage ==
  /\ Usable /\ ~Busy
  /\ Commit(prevPage(S), Event("prevPage", 0, FALSE))

\* the Home and End keys, and a call of the exposed goToPage
GoToPage ==
  /\ Usable /\ ~Busy
  /\ \E n \in -1..MaxCols : Commit(goToPage(S, n), Event("goToPage", n, FALSE))

\* the close buttons and the Escape key
CloseReader ==
  /\ Usable /\ ~Busy
  /\ Commit(deactivateReaderMode(S), Event("close", 0, isReaderActive))

\* a typography control of the settings panel
ChangeTypography ==
  /\ Usable /\ ~Busy
  /\ Commit(saveSettings(applySettings(S)), Event("typography", 0, FALSE))

\* the window is resized
Resize ==
  /\ ~Busy
  /\ Commit(resizeListener(S), Event("resize", 0, FALSE))

\* browser.storage answers the oldest request of an area
ServeStorage ==
  \E area \in {"local", "sync"} :
    /\ \E i \in 1..Len(storageQ) : storageQ[i].area = area
    /\ LET i == Oldest(storageQ, area)
           q == storageQ[i]
       IN  Commit(Continue([S EXCEPT !.storageQ = Without(@, i)], q),
                  Event(q.cont, 0, q.kind = "set"))

\* the flag of the event: the activation was started by a toggle
FetchDone ==
  /\ fetchPending # NoFetch
  /\ Commit(overlayLoaded(S),
            Event("overlayLoaded", 0, fetchPending.by = "toggle"))

FetchFailed ==
  /\ fetchPending # NoFetch
  /\ Commit(overlayFailed(S),
            Event("overlayFailed", 0, fetchPending.by = "toggle"))

\* the readings are those of the layout run before
Same(r) == measured = [viewportWidth |-> r[1], scrollWidth |-> r[2]]

\* the flag of the three events that run a layout: the browser returns the
\* readings of the layout run before
Frame ==
  /\ rafQ # << >>
  /\ \E r \in Readings(S) :
       Commit(runFrame([S EXCEPT !.rafQ = << >>], rafQ, r),
              Event("frame", 0, Same(r)))

SettingsTimer ==
  /\ settingsTimers > 0
  /\ \E r \in Readings(S) :
       Commit(settingsTimer(S, r), Event("settingsTimer", 0, Same(r)))

ResizeTimer ==
  /\ resizeTimeout
  /\ \E r \in Readings(S) :
       Commit(resizeTimer(S, r), Event("resizeTimer", 0, Same(r)))

AutoTimer ==
  /\ autoTimer # "none"
  /\ Commit(autoActivate(S), Event("autoTimer", 0, FALSE))

Next ==
  \/ ToggleMessage
  \/ QueryMessage
  \/ NextPage
  \/ PrevPage
  \/ GoToPage
  \/ CloseReader
  \/ ChangeTypography
  \/ Resize
  \/ ServeStorage
  \/ FetchDone
  \/ FetchFailed
  \/ Frame
  \/ SettingsTimer
  \/ ResizeTimer
  \/ AutoTimer

Spec == Init /\ [][Next]_vars

TypeOK ==
  /\ isReaderActive \in BOOLEAN
  /\ isListingMode \in BOOLEAN
  /\ readerOverlay \in {"null", "created"}
  /\ articleData \in {"null", "data"}
  /\ listingData \in {"null", "empty", "sections"}
  /\ fetchPending \in [mode : {"none", "article", "listing"},
                        by : {"none", "toggle", "auto"}]
  /\ autoTimer \in {"none", "article", "listing"}
  /\ settingsTimers \in Nat
  /\ currentPage \in Int /\ totalPages \in Int /\ pageWidth \in Nat

(***************************************************************************)
(* The layout alone: an article is displayed on the first of its pages,    *)
(* the window has been resized and the 150 ms timer is armed.  The         *)
(* readings the browser returns to the layout run are drawn at the start   *)
(* and held in measured until the run reads them.                          *)
(***************************************************************************)
LayoutInit ==
  /\ isReaderActive = TRUE
  /\ isListingMode = FALSE
  /\ readerOverlay = "created"
  /\ articleData = "data"
  /\ listingData = "null"
  /\ docTitle = "article"
  /\ bodyOverflow = "hidden"
  /\ overlayAttached = TRUE
  /\ overlayDisplay = "block"
  /\ readerInit = TRUE
  /\ content = "article"
  /\ notification = "none"
  /\ totalPages = MaxCols
  /\ currentPage \in 0..(MaxCols - 1)
  /\ pageWidth = 30 + columnGap
  /\ settings = [listingModeEnabled |-> TRUE]
  /\ contentOffset = currentPage * pageWidth
  /\ pageIndicator = <<currentPage + 1, totalPages>>
  /\ exactWidth = ColumnsWidth(30, MaxCols)
  /\ measured \in [viewportWidth : 0..MaxViewport, scrollWidth : 0..MaxScroll]
  /\ page = [isArticle |-> TRUE, extract |-> "ok", listing |-> "empty"]
  /\ readerEnabledOrigins = {Origin}
  /\ readingPosition = [page |-> currentPage, totalPages |-> totalPages]
  /\ readerSettings = [listingModeEnabled |-> TRUE]
  /\ storageQ = << >>
  /\ fetchPending = NoFetch
  /\ rafQ = << >>
  /\ settingsTimers = 0
  /\ resizeTimeout = TRUE
  /\ autoTimer = "none"
  /\ lastEvent = Event("resize", 0, FALSE)
  /\ PositionsIdle
  /\ ClassifyIdle
  /\ SanitizeIdle
  /\ ExtractIdle
  /\ PanelIdle
  /\ ResizeIdle
  /\ OriginsIdle

LayoutRun ==
  /\ resizeTimeout
  /\ Commit(resizeTimer(S, <<measured.viewportWidth, measured.scrollWidth>>),
            Event("resizeTimer", 0, TRUE))

LayoutNext ==
  \/ LayoutRun
  \/ ServeStorage

SpecLayout == LayoutInit /\ [][LayoutNext]_vars

(***************************************************************************)
(* Properties                                                              *)
(***************************************************************************)
\* an event that ran setupPagination
LayoutEvents == {"frame", "settingsTimer", "resizeTimer"}

\* C1: after any sequence of layout runs, navigations and position
\* restores there is at least one page and the current page is one of them
C1_PaginationInRange ==
  /\ totalPages >= 1
  /\ 0 <= currentPage
  /\ currentPage < totalPages

\* a saved position has been restored after a layout of several pages
C1_Witness ==
  /\ lastEvent.op = "loadPosition"
  /\ currentPage = 1
  /\ totalPages = 2
  /\ measured.scrollWidth > 0

\* the navigation of this step is outside the range it is guarded by
OutOfRange ==
  \/ lastEvent'.op = "goToPage"
       /\ (lastEvent'.arg < 0 \/ lastEvent'.arg >= totalPages)
  \/ lastEvent'.op = "nextPage" /\ currentPage >= totalPages - 1
  \/ lastEvent'.op = "prevPage" /\ currentPage = 0

\* C2: goToPage outside [0, totalPages), nextPage on the last page and
\* prevPage on page 0 change neither the pagination state nor the display
\* and issue no write of the reading position
C2_OutOfRangeIsNoOp ==
  [][OutOfRange =>
       UNCHANGED << currentPage, totalPages, pageWidth, contentOffset,
                    pageIndicator, storageQ, readingPosition >>]_vars

\* goToPage(totalPages) has been called on a reader of two pages
C2_Witness ==
  /\ lastEvent.op = "goToPage"
  /\ lastEvent.arg = totalPages
  /\ totalPages = 2
  /\ currentPage = 1

\* C3 as stated: every re-run of layout, by a resize or by a settings
\* change, leaves the current page 0
C3_RelayoutResets ==
  lastEvent.op \in {"resizeTimer", "settingsTimer"} => currentPage = 0

\* C3 as amended: a layout run by a settings change leaves the current page
\* 0; a layout run by a resize keeps the current page, clamped to the new
\* last page
C3_SettingsResetResizeClamps ==
  [][/\ lastEvent'.op = "settingsTimer" =>
          currentPage' = 0 /\ contentOffset' = 0
     /\ lastEvent'.op = "resizeTimer" =>
          currentPage' = Min(currentPage, totalPages' - 1)]_vars

\* a settings change has laid out several pages and left the first one
\* displayed, while the position stored before it is a later page
C3_Witness ==
  /\ lastEvent.op = "settingsTimer"
  /\ totalPages > 1
  /\ currentPage = 0
  /\ readingPosition.page > 0

\* C4: a layout run that reads the viewport width and scrollable width of
\* the run before it yields the page count and the stride of that run,
\* whatever happened in between
C4_LayoutRepeatable ==
  [][(lastEvent'.op \in LayoutEvents /\ measured' = measured) =>
       (totalPages' = totalPages /\ pageWidth' = pageWidth)]_vars

\* a resize has run the layout again with the readings of the run before,
\* on an article of two pages
C4_Witness ==
  /\ lastEvent.op = "resizeTimer"
  /\ lastEvent.flag
  /\ totalPages = 2
  /\ measured.scrollWidth = ColumnsWidth(measured.viewportWidth, 2)

\* C5: after a layout the last page starts inside the content, and a
\* scrollable width of k whole strides yields k pages
C5_NoEmptyLastPage ==
  lastEvent.op = "resizeTimer" =>
    /\ measured.scrollWidth > 0 =>
         (totalPages - 1) * pageWidth < measured.scrollWidth
    /\ \A k \in 1..MaxScroll :
         measured.scrollWidth = k * pageWidth => totalPages = k

\* the content is exactly three strides wide and is laid out in three pages
C5_Witness ==
  /\ lastEvent.op = "resizeTimer"
  /\ measured.scrollWidth = 3 * pageWidth
  /\ totalPages = 3

\* C6 as stated: a viewport of zero width or a content of zero scrollable
\* width is laid out in one page
C6_DegenerateOnePage ==
  (lastEvent.op = "resizeTimer"
     /\ (measured.viewportWidth = 0 \/ measured.scrollWidth = 0)) =>
    (totalPages = 1 /\ currentPage = 0)

\* C6 as amended: a content of zero scrollable width is laid out in one
\* page; with a viewport of zero width the stride is the gap and the pages
\* are the gaps the content spans, at least one, the current page among them
C6_DegenerateValid ==
  lastEvent.op = "resizeTimer" =>
    /\ measured.scrollWidth = 0 => (totalPages = 1 /\ currentPage = 0)
    /\ measured.viewportWidth = 0 =>
         /\ pageWidth = columnGap
         /\ totalPages = Max(1, Ceil(measured.scrollWidth, columnGap))
         /\ 0 <= currentPage /\ currentPage < totalPages

\* a layout has found a viewport of zero width and a content of zero width
C6_Witness ==
  /\ lastEvent.op = "resizeTimer"
  /\ measured.viewportWidth = 0
  /\ measured.scrollWidth = 0
  /\ totalPages = 1

\* this step starts an activation: it runs the extraction of an article or
\* of a listing
ActivationStarts ==
  /\ ~isReaderActive
  /\ \/ lastEvent'.op = "toggle" /\ page.isArticle
     \/ lastEvent'.op = "toggleSettings"
     \/ lastEvent'.op = "autoTimer"
          /\ (page.isArticle \/ autoTimer = "listing")

\* an activation has started and has not finished: it awaits the resources
\* of the overlay or the storage
ActivationInProgress ==
  \/ fetchPending # NoFetch
  \/ \E i \in 1..Len(storageQ) : storageQ[i].cont = "enable"

\* C7: no activation starts while an earlier activation has not finished
C7_OneActivation ==
  [][ActivationStarts => ~ActivationInProgress]_vars

\* a toggle received while Active deactivates: the overlay is hidden, the
\* title and the overflow of the body are those of the page
ToggleOff ==
  (lastEvent'.op = "toggle" /\ isReaderActive) =>
    /\ ~isReaderActive'
    /\ overlayDisplay' = "none"
    /\ docTitle' = "original"
    /\ bodyOverflow' = ""

\* the state query answers the activation state
QueryAnswers ==
  lastEvent'.op = "query" => lastEvent'.flag = isReaderActive'

\* C8 as stated: a toggle while Active deactivates and restores the page;
\* the activation a toggle started after a successful extraction ends
\* Active; the query answers the state
C8_ToggleFlips ==
  [][/\ ToggleOff
     /\ (lastEvent'.op \in {"overlayLoaded", "overlayFailed"}
           /\ lastEvent'.flag) => isReaderActive'
     /\ QueryAnswers]_vars

\* the extraction this step runs while Inactive succeeds
ToggleExtracts ==
  /\ ~isReaderActive
  /\ \/ lastEvent'.op = "toggle" /\ page.isArticle /\ page.extract = "ok"
     \/ lastEvent'.op = "toggleSettings"
          /\ IF readerSettings.listingModeEnabled
             THEN page.listing = "sections"
             ELSE page.extract = "ok"

\* C8 as amended: a toggle while Active deactivates and restores the page; a
\* toggle while Inactive whose extraction succeeds activates at once when
\* the overlay exists and otherwise when the resources of the overlay have
\* loaded, and leaves the state as it is when they fail to load; the query
\* answers the state
C8_ToggleFlipsOnceLoaded ==
  [][/\ ToggleOff
     /\ (ToggleExtracts /\ readerOverlay # "null") => isReaderActive'
     /\ (ToggleExtracts /\ readerOverlay = "null") =>
          (fetchPending'.by = "toggle" /\ ~isReaderActive')
     /\ (lastEvent'.op = "overlayLoaded" /\ lastEvent'.flag) => isReaderActive'
     /\ lastEvent'.op = "overlayFailed" => isReaderActive' = isReaderActive
     /\ QueryAnswers]_vars

\* a toggle has activated the reader again on the overlay created before
C8_Witness ==
  /\ lastEvent.op = "toggle"
  /\ ~lastEvent.flag
  /\ isReaderActive
  /\ readerInit
  /\ overlayDisplay = "block"
  /\ docTitle = "article"

\* nothing of the registration is pending
Quiescent ==
  /\ storageQ = << >>
  /\ fetchPending = NoFetch
  /\ autoTimer = "none"

\* C9: once the requests of an activation or deactivation have completed
\* and nothing is pending, the origin is registered exactly when the
\* coordinator is Active
C9_StickyFollowsState ==
  (Quiescent /\ lastEvent.op \in {"enable", "disable"}) =>
    ((Origin \in readerEnabledOrigins) <=> isReaderActive)

\* this step runs activateReaderMode while Inactive on a page whose
\* extraction returns null or throws
ExtractionFails ==
  /\ ~isReaderActive
  /\ page.extract # "ok"
  /\ \/ lastEvent'.op = "toggle" /\ page.isArticle
     \/ lastEvent'.op = "toggleSettings" /\ ~readerSettings.listingModeEnabled
     \/ lastEvent'.op = "autoTimer" /\ page.isArticle

\* C10: an activation whose extraction fails ends in the step it started
\* in: the coordinator is Inactive, a notification is shown, no overlay is
\* created or shown and no registration is requested
C10_ExtractionFailureAborts ==
  [][ExtractionFails =>
       /\ ~isReaderActive'
       /\ notification' \in {"Could not extract article from this page",
                             "Failed to activate reader mode"}
       /\ readerEnabledOrigins' = readerEnabledOrigins
       /\ Cardinality({i \in 1..Len(storageQ') : storageQ'[i].cont = "enable"})
            <= Cardinality({i \in 1..Len(storageQ) : storageQ[i].cont = "enable"})
       /\ UNCHANGED << fetchPending, readerOverlay, overlayDisplay,
                       bodyOverflow, docTitle >>]_vars

\* a toggle on an article page whose extraction returns null has ended
C10_Witness ==
  /\ lastEvent.op = "toggle"
  /\ page.extract = "null"
  /\ notification = "Could not extract article from this page"
  /\ ~isReaderActive
  /\ readerOverlay = "null"
  /\ Origin \notin readerEnabledOrigins

\* the registrations requested and not yet read
EnableRequests(q) == Cardinality({i \in 1..Len(q) : q[i].cont = "enable"})

\* this step runs activateListingMode while Inactive on a page whose
\* listing has no sections
ListingEmpty ==
  /\ ~isReaderActive
  /\ page.listing = "empty"
  /\ \/ lastEvent'.op = "toggleSettings" /\ readerSettings.listingModeEnabled
     \/ lastEvent'.op = "autoTimer" /\ ~page.isArticle /\ autoTimer = "listing"

ResumeInit ==
  /\ Init
  /\ page.extract = "ok"
  /\ readingPosition = [page |-> 1, totalPages |-> 2]

\* the readings of an article of MaxCols pages in a window that is not
\* resized
ArticleReadings ==
  << 30, ColumnsWidth(30, MaxCols) >>

\* the one toggle: nothing has been activated and nothing is pending
ResumeToggle ==
  /\ ~isReaderActive
  /\ readerOverlay = "null"
  /\ storageQ = << >>
  /\ autoTimer = "none"
  /\ lastEvent.op # "toggle"
  /\ Commit(toggleReaderMode(S), Event("toggle", 0, isReaderActive))

ResumeFrame ==
  /\ rafQ # << >>
  /\ Commit(runFrame([S EXCEPT !.rafQ = << >>], rafQ, ArticleReadings),
            Event("frame", 0, Same(ArticleReadings)))

ResumeSettingsTimer ==
  /\ settingsTimers > 0
  /\ Commit(settingsTimer(S, ArticleReadings),
            Event("settingsTimer", 0, Same(ArticleReadings)))

ResumeNext ==
  \/ ResumeToggle
  \/ ServeStorage
  \/ FetchDone
  \/ FetchFailed
  \/ ResumeFrame
  \/ ResumeSettingsTimer
  \/ AutoTimer

SpecResume == ResumeInit /\ [][ResumeNext]_vars

\* every callback of the activation has run
Settled ==
  /\ storageQ = << >>
  /\ rafQ = << >>
  /\ settingsTimers = 0
  /\ fetchPending = NoFetch
  /\ autoTimer = "none"

\* C12: once the callbacks of the activation of an article have run, the
\* page displayed is the stored page and the stored page is unchanged
C12_PositionResumed ==
  (Settled /\ isReaderActive /\ content = "article" /\ totalPages > 1) =>
    (currentPage = 1 /\ readingPosition.page = 1)

(***************************************************************************)
(* The stored reading positions of all articles.  An entry is the key of   *)
(* an article and the timestamp of its save; the map keeps the order in    *)
(* which its keys were inserted, as Object.keys returns it.                *)
(***************************************************************************)
\* the entries saveReadingPosition keeps
positionsCap == 50

\* the entries the SAVE_READING_POSITION handler of the background script
\* keeps
backgroundCap == 100

\* positions[key] = entry
Put(m, k, ts) ==
  IF \E i \in 1..Len(m) : m[i].key = k
  THEN [i \in 1..Len(m) |->
          IF m[i].key = k THEN [key |-> k, timestamp |-> ts] ELSE m[i]]
  ELSE Append(m, [key |-> k, timestamp |-> ts])

\* keys.sort by timestamp, slice(0, n), delete: the sort is stable, so among
\* equal timestamps the key inserted first goes first
RECURSIVE evictOldest(_, _)
evictOldest(m, n) ==
  IF n = 0 \/ m = << >> THEN m
  ELSE LET i == CHOOSE i \in 1..Len(m) :
                  /\ \A j \in 1..Len(m) : m[i].timestamp <= m[j].timestamp
                  /\ \A j \in 1..(i - 1) : m[j].timestamp > m[i].timestamp
       IN  evictOldest(Without(m, i), n - 1)

\* the map saveReadingPosition writes after it has read m
contentPositions(m, k, ts) ==
  LET put == Put(m, k, ts)
  IN  IF Len(put) > positionsCap
      THEN evictOldest(put, Len(put) - positionsCap)
      ELSE put

\* the map the SAVE_READING_POSITION handler writes after it has read m
backgroundPositions(m, k, ts) ==
  LET put == Put(m, k, ts)
  IN  IF Len(put) > backgroundCap
      THEN SubSeq(put, Len(put) - backgroundCap + 1, Len(put))
      ELSE put

\* the articles whose position is saved: the one saved first, the one saved
\* last and two that have no entry
SavedKeys == {1, positionsCap, positionsCap + 1, positionsCap + 2}

\* the content script has been loaded and has no callback pending
MainIdle ==
  /\ MainInit
  /\ page = [isArticle |-> TRUE, extract |-> "ok", listing |-> "empty"]
  /\ readerEnabledOrigins = {}
  /\ readingPosition = NoPosition
  /\ readerSettings = [listingModeEnabled |-> TRUE]

\* positionsCap articles have been read, one every millisecond
PositionsInit ==
  /\ MainIdle
  /\ readingPositions =
       [i \in 1..positionsCap |-> [key |-> i, timestamp |-> i]]
  /\ positionSets = << >>
  /\ now = positionsCap
  /\ lastSaved = [key |-> 0, by |-> "none", n |-> 0]
  /\ ClassifyIdle
  /\ SanitizeIdle
  /\ ExtractIdle
  /\ PanelIdle
  /\ ResizeIdle
  /\ OriginsIdle

\* storage answers the get of a saveReadingPosition: the map is computed and
\* its set is issued
SavePositionRead ==
  /\ lastSaved.n + Len(positionSets) < MaxSaves
  /\ \E k \in SavedKeys :
       positionSets' =
         Append(positionSets,
                [map |-> contentPositions(readingPositions, k, now),
                 key |-> k, by |-> "content"])
  /\ UNCHANGED << originVars, mainVars, classifyVars, sanitizeVars, extractVars, panelVars, resizeVars,
                  readingPositions, now, lastSaved >>

\* storage answers the get of the SAVE_READING_POSITION handler
BackgroundSaveRead ==
  /\ lastSaved.n + Len(positionSets) < MaxSaves
  /\ \E k \in SavedKeys :
       positionSets' =
         Append(positionSets,
                [map |-> backgroundPositions(readingPositions, k, now),
                 key |-> k, by |-> "background"])
  /\ UNCHANGED << originVars, mainVars, classifyVars, sanitizeVars, extractVars, panelVars, resizeVars,
                  readingPositions, now, lastSaved >>

\* storage applies the oldest set
PositionsSet ==
  /\ positionSets # << >>
  /\ readingPositions' = Head(positionSets).map
  /\ lastSaved' = [key |-> Head(positionSets).key,
                   by |-> Head(positionSets).by, n |-> lastSaved.n + 1]
  /\ positionSets' = Tail(positionSets)
  /\ UNCHANGED << originVars, mainVars, classifyVars, sanitizeVars, extractVars, panelVars, resizeVars,
                  now >>

Tick ==
  /\ now < positionsCap + MaxTicks
  /\ now' = now + 1
  /\ UNCHANGED << originVars, mainVars, classifyVars, sanitizeVars, extractVars, panelVars, resizeVars,
                  readingPositions, positionSets,
                  lastSaved >>

PositionsNext ==
  \/ SavePositionRead
  \/ BackgroundSaveRead
  \/ PositionsSet
  \/ Tick

SpecPositions == PositionsInit /\ [][PositionsNext]_vars

\* the keys of a map
Keys(m) == {m[i].key : i \in 1..Len(m)}

\* C13: every completed save leaves at most positionsCap entries, among
\* them the entry it wrote, and every entry it removed is at most as recent
\* as every entry it kept
C13_PositionsCapped ==
  [][(positionSets # << >> /\ positionSets' = Tail(positionSets)) =>
       /\ Len(readingPositions') <= positionsCap
       /\ Head(positionSets).key \in Keys(readingPositions')
       /\ \A i \in 1..Len(readingPositions) :
            readingPositions[i].key \notin Keys(readingPositions') =>
              \A j \in 1..Len(readingPositions') :
                readingPositions[i].timestamp
                  <= readingPositions'[j].timestamp]_vars

\* the requests of the settings that checkAutoActivation awaits
AutoSettingsRequests(q) ==
  Cardinality({i \in 1..Len(q) : q[i].cont = "autoSettings"})

ParagraphLengths == {100, 101, 500, 1000}

\* what new Readability(clone).parse() does: it throws, returns null, or
\* returns an article of so many words (0: no text)
Probes ==
  { [result |-> r, words |-> 0] : r \in {"throw", "null"} }
    \cup { [result |-> "parsed", words |-> w] : w \in {0, 200, 201} }

Docs ==
  [ path : {"", "/", "/a"},
    paragraphs : [ParagraphLengths -> 0..MaxParagraphs],
    listItems : {10, 11},
    readability : Probes,
    parsedInPlace : {FALSE},
    noise : {TRUE} ]

RECURSIVE textLengthOver(_, _)
textLengthOver(d, lengths) ==
  IF lengths = {} THEN 0
  ELSE LET l == CHOOSE l \in lengths : TRUE
       IN  l * d.paragraphs[l] + textLengthOver(d, lengths \ {l})

RECURSIVE substantialOver(_, _)
substantialOver(d, lengths) ==
  IF lengths = {} THEN 0
  ELSE LET l == CHOOSE l \in lengths : TRUE
       IN  (IF l > 100 THEN d.paragraphs[l] ELSE 0)
             + substantialOver(d, lengths \ {l})

totalTextLength(d) == textLengthOver(d, ParagraphLengths)

substantialParagraphs(d) == substantialOver(d, ParagraphLengths)

hasListingStructure(d) == d.listItems > 10

\* the text threshold taken as reached at 2000 characters
hasSubstantialContentInclusive(d) ==
  totalTextLength(d) >= 2000 /\ substantialParagraphs(d) > 3

hasSubstantialContent(d) ==
  totalTextLength(d) > 2000 /\ substantialParagraphs(d) > 3

isNotListingPage(d) == ~hasListingStructure(d) \/ substantialParagraphs(d) > 5

\* Readability parses the document it is given in place
Readability(d) ==
  [parsed |-> d.readability, document |-> [d EXCEPT !.parsedInPlace = TRUE]]

cloneNode(d) == d

\* preprocessDOM: the embed placeholders and consent blocks are removed
preprocessDOM(d) == [d EXCEPT !.noise = FALSE]

\* extractArticle without its call of preprocessDOM
extractArticleUnprocessed(d) ==
  LET documentClone == cloneNode(d)
  IN  [parsed |-> Readability(documentClone).parsed, input |-> documentClone]

\* extractArticle: what Readability returns and the document it was given
extractArticle(d) ==
  LET documentClone == preprocessDOM(cloneNode(d))
  IN  [parsed |-> Readability(documentClone).parsed, input |-> documentClone]

\* whether a document still holds its consent and embed noise
noiseOf(d) == IF d.noise THEN "noise" ELSE "clean"

\* the probe run on the document itself
probeInPlace(d) ==
  LET r == Readability(d)
  IN  [result |-> IF r.parsed.result = "parsed" /\ r.parsed.words > 0
                  THEN r.parsed.words > 200
                  ELSE FALSE,
       document |-> r.document, probed |-> noiseOf(d)]

\* the probe that takes a failed extraction for an article
probeFailureIsArticle(d) ==
  LET r == Readability(cloneNode(d))
  IN  [result |-> IF r.parsed.result = "parsed" /\ r.parsed.words > 0
                  THEN r.parsed.words > 200
                  ELSE TRUE,
       document |-> d, probed |-> noiseOf(cloneNode(d))]

\* the try block of isArticlePage: the result and the document it leaves
probe(d) ==
  LET r == Readability(cloneNode(d))
  IN  [result |-> IF r.parsed.result = "parsed" /\ r.parsed.words > 0
                  THEN r.parsed.words > 200
                  ELSE FALSE,
       document |-> d, probed |-> noiseOf(cloneNode(d))]

isArticlePage(d) ==
  IF d.path = "/" \/ d.path = ""
  THEN [result |-> FALSE, document |-> d, probed |-> "none"]
  ELSE IF hasSubstantialContent(d) /\ isNotListingPage(d)
       THEN probe(d)
       ELSE [result |-> FALSE, document |-> d, probed |-> "none"]

\* the content script has been loaded into a document of a registered
\* origin; listing mode is disabled in the settings
ClassifyInit ==
  /\ MainInit
  /\ PositionsIdle
  /\ SanitizeIdle
  /\ ExtractIdle
  /\ PanelIdle
  /\ ResizeIdle
  /\ OriginsIdle
  /\ doc \in Docs
  /\ classified = "none"
  /\ seen = [probe |-> "none", extractor |-> "none"]
  /\ page = [isArticle |-> isArticlePage(doc).result,
             extract |-> IF doc.readability.result = "parsed"
                              /\ doc.readability.words > 0
                         THEN "ok" ELSE "null",
             listing |-> "empty"]
  /\ readerEnabledOrigins = {Origin}
  /\ readingPosition = NoPosition
  /\ readerSettings = [listingModeEnabled |-> FALSE]

Verdict(c) == IF c.result THEN "article" ELSE "other"

\* the documents seen once isArticlePage has returned c and, if extracts,
\* activateReaderMode has called extractArticle
Seen(before, c, extracts) ==
  [probe |-> IF c.probed = "none" THEN before.probe ELSE c.probed,
   extractor |-> IF extracts THEN noiseOf(extractArticle(c.document).input)
                 ELSE before.extractor]

\* onMessage TOGGLE_READER while Inactive: toggleReaderMode awaits
\* isArticlePage and goes on with its result
ClassifyToggle ==
  /\ ~isReaderActive
  /\ fetchPending = NoFetch
  /\ lastEvent.op # "toggle"
  /\ LET c == isArticlePage(doc)
     IN  /\ doc' = c.document
         /\ classified' = Verdict(c)
         /\ seen' = Seen(seen, c, c.result)
         /\ CommitMain(toggleReaderMode([S EXCEPT !.page.isArticle = c.result]),
                       Event("toggle", 0, c.result))
  /\ UNCHANGED << originVars, positionVars, sanitizeVars, extractVars, panelVars, resizeVars >>

\* the 500 ms timer of checkAutoActivation: it awaits isArticlePage and goes
\* on with its result
ClassifyAuto ==
  /\ autoTimer # "none"
  /\ LET c == isArticlePage(doc)
     IN  /\ doc' = c.document
         /\ classified' = Verdict(c)
         /\ seen' = Seen(seen, c, c.result /\ ~isReaderActive)
         /\ CommitMain(autoActivate([S EXCEPT !.page.isArticle = c.result]),
                       Event("autoTimer", 0, c.result))
  /\ UNCHANGED << originVars, positionVars, sanitizeVars, extractVars, panelVars, resizeVars >>

\* browser.storage answers the oldest request of an area: after the
\* settings read of toggleReaderMode, activateReaderMode extracts the
\* article, or activateListingMode the listing from the document itself
ClassifyServe ==
  \E area \in {"local", "sync"} :
    /\ \E i \in 1..Len(storageQ) : storageQ[i].area = area
    /\ LET i == Oldest(storageQ, area)
           q == storageQ[i]
           extracts == /\ q.kind = "get" /\ q.cont = "toggleSettings"
                       /\ ~isReaderActive
       IN  /\ CommitMain(Continue([S EXCEPT !.storageQ = Without(@, i)], q),
                         Event(q.cont, 0, q.kind = "set"))
           /\ seen' =
                IF ~extracts THEN seen
                ELSE IF readerSettings.listingModeEnabled
                THEN [seen EXCEPT !.extractor = noiseOf(doc)]
                ELSE [seen EXCEPT
                        !.extractor = noiseOf(extractArticle(doc).input)]
    /\ UNCHANGED << originVars, positionVars, sanitizeVars, extractVars, panelVars, resizeVars,
                    doc, classified >>

ClassifyNext ==
  \/ ClassifyToggle
  \/ ClassifyAuto
  \/ ClassifyServe

SpecClassify == ClassifyInit /\ [][ClassifyNext]_vars

ToggleSettingsRequests(q) ==
  Cardinality({i \in 1..Len(q) : q[i].cont = "toggleSettings"})

\* the classifier runs its probe on the document, and the probe throws,
\* returns null or returns no text
ProbeFails ==
  /\ doc.path \notin {"", "/"}
  /\ hasSubstantialContent(doc)
  /\ isNotListingPage(doc)
  /\ doc.readability.result \in {"throw", "null"} \/ doc.readability.words = 0

\* C16: when the probe of the classifier fails, the classifier returns
\* false: a toggle goes on to read the settings as for a non-article page,
\* the timer does not activate the article, and neither shows an error
C16_ProbeFailureIsNotArticle ==
  [][/\ (ProbeFails /\ lastEvent'.op = "toggle") =>
          /\ classified' = "other"
          /\ ~lastEvent'.flag
          /\ ToggleSettingsRequests(storageQ')
               = ToggleSettingsRequests(storageQ) + 1
          /\ UNCHANGED << isReaderActive, fetchPending, notification,
                          articleData >>
     /\ (ProbeFails /\ lastEvent'.op = "autoTimer") =>
          /\ classified' = "other"
          /\ UNCHANGED << isReaderActive, fetchPending, notification,
                          articleData >>]_vars

\* a toggle on a document whose probe throws has gone on to read the
\* settings
C16_Witness ==
  /\ lastEvent.op = "toggle"
  /\ classified = "other"
  /\ doc.path = "/a"
  /\ hasSubstantialContent(doc)
  /\ isNotListingPage(doc)
  /\ doc.readability.result = "throw"
  /\ ToggleSettingsRequests(storageQ) = 1

\* C17: a classification leaves the document as it was and returns what the
\* classification before it returned; a toggle whose classification is
\* false only requests the settings, and a timer whose classification is
\* false changes nothing but the timer
C17_ClassifyPure ==
  [][lastEvent'.op \in {"toggle", "autoTimer"} =>
       /\ doc' = doc
       /\ classified # "none" => classified' = classified
       /\ classified' = "other" =>
            /\ UNCHANGED << isReaderActive, isListingMode, readerOverlay,
                            articleData, listingData, docTitle, bodyOverflow,
                            overlayAttached, overlayDisplay, readerInit,
                            content, notification, currentPage, totalPages,
                            fetchPending, rafQ, settingsTimers,
                            readerEnabledOrigins, readingPosition,
                            readerSettings >>
            /\ storageQ' =
                 IF lastEvent'.op = "toggle"
                 THEN Append(storageQ, Request("sync", "get", "toggleSettings"))
                 ELSE storageQ]_vars

\* the timer has classified a document that a toggle had classified
\* before, and the probe ran both times
C17_Witness ==
  /\ lastEvent.op = "autoTimer"
  /\ classified = "other"
  /\ ToggleSettingsRequests(storageQ) = 1
  /\ doc.path = "/a"
  /\ hasSubstantialContent(doc)
  /\ isNotListingPage(doc)
  /\ doc.readability = [result |-> "parsed", words |-> 200]
  /\ ~doc.parsedInPlace

(***************************************************************************)
(* sanitizeHTML.  Markup is a sequence of elements; an element has a tag,  *)
(* a sequence of attributes and the number of line feeds its content       *)
(* starts with.  An attribute value is a sequence of pieces of text:       *)
(* "java", "JAVA", "script", "data", "http", ":" and "x" stand for those   *)
(* letters, "SP" for a space, "TAB" for a tab and "SOH" for U+0001.        *)
(***************************************************************************)
javascriptScheme == << "java", "script", ":" >>

dataScheme == << "data", ":" >>

UrlValues ==
  { << "java", "script", ":", "x" >>,
    << "JAVA", "script", ":", "x" >>,
    << "SP", "java", "script", ":", "x" >>,
    << "java", "TAB", "script", ":", "x" >>,
    << "SOH", "java", "script", ":", "x" >>,
    << "java", "script", ":", "java", "script", ":", "x" >>,
    << "data", ":", "x" >>,
    << "http", ":", "x" >> }

Tags == {"a", "img", "pre", "form", "script", "iframe"}

Attributes ==
  [name : {"href", "src"}, value : UrlValues]
    \cup [name : {"onclick", "ONCLICK", "onpointerdown", "title"},
          value : {<< "x" >>}]

AttributeLists == {<< >>} \cup {<< a >> : a \in Attributes}

Elements ==
  [tag : Tags, attributes : AttributeLists, leadingLF : 0..MaxNewlines]

RECURSIVE Fragments(_)
Fragments(n) ==
  IF n = 0 THEN {<< >>}
  ELSE LET shorter == Fragments(n - 1)
       IN shorter \cup
            {Append(f, e) : f \in {g \in shorter : Len(g) = n - 1},
                            e \in Elements}

eventAttributes ==
  { "onabort", "onblur", "onchange", "onclick", "ondblclick", "onerror",
    "onfocus", "oninput", "onkeydown", "onkeypress", "onkeyup", "onload",
    "onmousedown", "onmousemove", "onmouseout", "onmouseover", "onmouseup",
    "onreset", "onresize", "onscroll", "onselect", "onsubmit", "onunload",
    "onbeforeunload", "onhashchange", "onmessage", "onoffline", "ononline",
    "onpagehide", "onpageshow", "onpopstate", "onstorage", "onanimationend",
    "onanimationiteration", "onanimationstart", "ontransitionend", "onwheel",
    "oncopy", "oncut", "onpaste", "ondrag", "ondragend", "ondragenter",
    "ondragleave", "ondragover", "ondragstart", "ondrop", "oncontextmenu" }

urlAttributes == {"href", "src", "action", "formaction", "xlink:href"}

removedTags ==
  {"script", "style", "noscript"}
    \cup {"form", "input", "button", "select", "textarea"}
    \cup {"iframe", "object", "embed", "applet"}

\* String.prototype.toLowerCase
toLowerCase(v) ==
  [i \in 1..Len(v) |-> IF v[i] = "JAVA" THEN "java" ELSE v[i]]

RECURSIVE stripStart(_, _)
stripStart(v, chars) ==
  IF v # << >> /\ Head(v) \in chars THEN stripStart(Tail(v), chars) ELSE v

RECURSIVE stripEnd(_, _)
stripEnd(v, chars) ==
  IF v # << >> /\ v[Len(v)] \in chars
  THEN stripEnd(SubSeq(v, 1, Len(v) - 1), chars)
  ELSE v

\* String.prototype.trim removes white space and line terminators
WhiteSpace == {"SP", "TAB"}

trim(v) == stripEnd(stripStart(v, WhiteSpace), WhiteSpace)

startsWith(v, prefix) ==
  Len(v) >= Len(prefix) /\ SubSeq(v, 1, Len(prefix)) = prefix

\* Element.getAttribute: the value of the attribute, "null" without it
getAttribute(el, name) ==
  LET at == {i \in 1..Len(el.attributes) : el.attributes[i].name = name}
  IN IF at = {} THEN "null"
     ELSE el.attributes[CHOOSE i \in at : \A j \in at : i <= j].value

\* Element.removeAttribute, for each of the names
removeAttribute(el, names) ==
  LET kept(a) == a.name \notin names
  IN [el EXCEPT !.attributes = SelectSeq(@, kept)]

\* the attribute is left in place with the scheme cut off its value
removeScriptURLPrefix(el, attr) ==
  LET value == getAttribute(el, attr)
      cut(a) ==
        IF a.name = attr
        THEN [a EXCEPT !.value = SubSeq(trim(value), Len(javascriptScheme) + 1,
                                        Len(trim(value)))]
        ELSE a
  IN IF /\ value # "null"
        /\ value # << >>
        /\ startsWith(toLowerCase(trim(value)), javascriptScheme)
     THEN [el EXCEPT !.attributes = [i \in 1..Len(@) |-> cut(@[i])]]
     ELSE el

\* an attribute that holds a javascript: URL is removed
removeScriptURL(el, attr) ==
  LET value == getAttribute(el, attr)
  IN IF /\ value # "null"
        /\ value # << >>
        /\ startsWith(toLowerCase(trim(value)), javascriptScheme)
     THEN removeAttribute(el, {attr})
     ELSE el

\* a data: href is removed from anything but an image
removeDataHref(el) ==
  LET href == getAttribute(el, "href")
  IN IF /\ el.tag # "img"
        /\ href # "null"
        /\ href # << >>
        /\ startsWith(toLowerCase(trim(href)), dataScheme)
     THEN removeAttribute(el, {"href"})
     ELSE el

\* the body of allElements.forEach
sanitizeElement(el) ==
  LET noHandlers == removeAttribute(el, eventAttributes)
      a1 == removeScriptURL(noHandlers, "href")
      a2 == removeScriptURL(a1, "src")
      a3 == removeScriptURL(a2, "action")
      a4 == removeScriptURL(a3, "formaction")
      a5 == removeScriptURL(a4, "xlink:href")
  IN removeDataHref(a5)

\* what sanitizeHTML removes from the parsed tree
removals(tree) ==
  LET filtered == [i \in 1..Len(tree) |-> sanitizeElement(tree[i])]
      kept(el) == el.tag \notin removedTags
  IN SelectSeq(filtered, kept)

\* HTML attribute names are lower-cased by the parser
attributeName(name) == IF name = "ONCLICK" THEN "onclick" ELSE name

\* DOMParser.parseFromString: attribute names are lower-cased and the line
\* feed that follows the start tag of a pre is dropped
parseFromString(html) ==
  [i \in 1..Len(html) |->
     [tag |-> html[i].tag,
      attributes |->
        [j \in 1..Len(html[i].attributes) |->
           [name |-> attributeName(html[i].attributes[j].name),
            value |-> html[i].attributes[j].value]],
      leadingLF |->
        IF html[i].tag = "pre" /\ html[i].leadingLF > 0
        THEN html[i].leadingLF - 1
        ELSE html[i].leadingLF]]

\* doc.body.innerHTML: the tree is written as it is, no line feed is put
\* back after the start tag of a pre
innerHTML(tree) == tree

sanitizeHTML(html) == innerHTML(removals(parseFromString(html)))

\* the attributes the browser compiles into event handlers when the markup
\* becomes the content of the article element
eventHandlerAttributes == eventAttributes \cup {"onpointerdown"}

\* the URL parser of the browser drops leading and trailing C0 controls and
\* spaces, drops every tab and newline, and reads the scheme in any case
C0ControlOrSpace == {"SP", "TAB", "SOH"}

executesScript(value) ==
  LET stripped == stripEnd(stripStart(value, C0ControlOrSpace),
                           C0ControlOrSpace)
      notTab(c) == c # "TAB"
  IN startsWith(toLowerCase(SelectSeq(stripped, notTab)), javascriptScheme)

\* sanitizeHTML is given markup that reached the page
SanitizeInit ==
  /\ MainIdle
  /\ PositionsIdle
  /\ ClassifyIdle
  /\ ExtractIdle
  /\ PanelIdle
  /\ ResizeIdle
  /\ OriginsIdle
  /\ fragment \in Fragments(MaxElements) \ {<< >>}
  /\ sanitized = << >>

\* extractArticle sanitizes the content Readability returned
Sanitize ==
  /\ sanitized = << >>
  /\ sanitized' = << sanitizeHTML(fragment) >>
  /\ UNCHANGED << originVars, mainVars, positionVars, classifyVars, extractVars, panelVars, resizeVars,
                  fragment >>

\* sanitizeHTML is applied to a string it returned
SanitizeAgain ==
  /\ Len(sanitized) = 1
  /\ sanitized' = Append(sanitized, sanitizeHTML(sanitized[1]))
  /\ UNCHANGED << originVars, mainVars, positionVars, classifyVars, extractVars, panelVars, resizeVars,
                  fragment >>

SanitizeNext == Sanitize \/ SanitizeAgain

SpecSanitize == SanitizeInit /\ [][SanitizeNext]_vars

\* the markup the i-th call of sanitizeHTML was given
SanitizeInput(i) == IF i = 1 THEN fragment ELSE sanitized[i - 1]

C19_NoScriptInOutput ==
  \A i \in 1..Len(sanitized) :
    \A k \in 1..Len(sanitized[i]) :
      \A j \in 1..Len(sanitized[i][k].attributes) :
        LET a == sanitized[i][k].attributes[j]
        IN /\ a.name \notin eventHandlerAttributes
           /\ ~(a.name \in urlAttributes /\ executesScript(a.value))

(***************************************************************************)
(* extractListing.  The main content area is a sequence of nodes in        *)
(* document order: an h2, alone or with the link it carries, a container   *)
(* with its anchors, or an anchor outside every container.  An anchor has  *)
(* the href attribute it was written with, its text (the first word and    *)
(* the length), its aria-label and its place relative to a heading: it     *)
(* wraps an h3 that holds all its text, it is all an h3 contains, or it    *)
(* is plain.                                                               *)
(***************************************************************************)
fallbackThreshold == 5

\* the longest text of a section header and the shortest of a prominent
\* link and of a fallback link
sectionTextMax == 25

prominentTextMin == 20

fallbackTextMin == 15

\* the path of the page itself
LocationPath == 0

NoText == [word |-> "", length |-> 0]

RawHrefs == [origin : {"", Origin}, path : 1..MaxPaths, hash : {"none"}]

TextLengths == {4, 10, 30}

\* a headline link of a card
Headline ==
  [href |-> [origin |-> "", path |-> 1, hash |-> "none"],
   word |-> "Story", length |-> 30, label |-> NoText, role |-> "plain"]

PlainAnchors ==
  { [Headline EXCEPT !.href = h, !.length = n] :
      h \in RawHrefs, n \in TextLengths }

\* a search link, links to "#" and "#top", a script link, overlay links
\* with an aria-label, and links around and inside a heading
SpecialAnchors ==
  { [Headline EXCEPT !.word = "Search", !.length = 6],
    [Headline EXCEPT !.href = [origin |-> "", path |-> LocationPath,
                               hash |-> "empty"]],
    [Headline EXCEPT !.href = [origin |-> "", path |-> LocationPath,
                               hash |-> "top"]],
    [Headline EXCEPT !.href.origin = "javascript:"],
    [Headline EXCEPT !.label = [word |-> "Story", length |-> 30],
                     !.length = 4],
    [Headline EXCEPT !.label = [word |-> "Search", length |-> 6],
                     !.href.path = 2],
    [Headline EXCEPT !.role = "wrapsHeading"],
    [Headline EXCEPT !.role = "wrapsHeading", !.length = 4,
                     !.href.path = 2],
    [Headline EXCEPT !.role = "inHeading", !.href.path = 2] }

Anchors == PlainAnchors \cup SpecialAnchors

\* the links an h2 carries: to a section page, under a headline, a script
\* link
HeadingAnchors ==
  { [Headline EXCEPT !.word = "Sport", !.length = 10],
    Headline,
    [Headline EXCEPT !.word = "News", !.length = 4,
                     !.href.origin = "javascript:"] }

RECURSIVE AnchorLists(_)
AnchorLists(n) ==
  IF n = 0 THEN {<< >>}
  ELSE LET shorter == AnchorLists(n - 1)
       IN shorter \cup
            {Append(l, a) : l \in {k \in shorter : Len(k) = n - 1},
                            a \in Anchors}

Nodes ==
  {[kind |-> "h2", anchors |-> << >>]}
    \cup [kind : {"h2"}, anchors : {<< a >> : a \in HeadingAnchors}]
    \cup [kind : {"container"}, anchors : AnchorLists(MaxLinks) \ {<< >>}]
    \cup [kind : {"a"}, anchors : AnchorLists(1) \ {<< >>}]

\* a front page: fallbackThreshold cards with a headline each, the last of
\* them linking to an article of its own or to the one of the card before
FrontPages ==
  { [i \in 1..fallbackThreshold |->
       [kind |-> "container",
        anchors |->
          << [Headline EXCEPT
                !.href = [origin |-> o,
                          path |-> IF i = fallbackThreshold THEN p ELSE i,
                          hash |-> "none"]] >>]] :
      o \in {"", Origin},
      p \in {fallbackThreshold - 1, fallbackThreshold} }

\* a.textContent and stripHtmlTags(text).trim()
Text(a) == [word |-> a.word, length |-> a.length]

\* new URL(href, window.location.origin), also what a.href reads: the
\* origin, the pathname, the hash (empty for "#") and the serialisation
URL(href) ==
  LET origin == IF href.origin = "" THEN Origin ELSE href.origin
  IN [origin |-> origin,
      pathname |-> href.path,
      hash |-> IF href.hash \in {"none", "empty"} THEN "" ELSE href.hash,
      href |-> [origin |-> origin, path |-> href.path, hash |-> href.hash]]

NoHref == [origin |-> "", path |-> LocationPath, hash |-> "none"]

NoLink == [href |-> NoHref, word |-> "", length |-> 0]

\* the alternatives of the navigation pattern, matched at the start of the
\* text whatever the case
navigationWords ==
  {"home", "about", "contact", "login", "sign in", "sign up", "subscribe",
   "more", "menu", "search", "privacy", "terms", "cookie", "skip to"}

lowerCase(word) ==
  CASE word = "Search" -> "search"
    [] word = "Story" -> "story"
    [] word = "Sport" -> "sport"
    [] word = "News" -> "news"
    [] OTHER -> word

createLink(href, text) ==
  LET url == URL(href)
  IN IF text.length < 5 \/ text.length > 400 THEN NoLink
     ELSE IF href.origin = "javascript:" THEN NoLink
     ELSE IF /\ url.hash # ""
             /\ url.pathname = LocationPath
             /\ url.origin = Origin
     THEN NoLink
     ELSE IF lowerCase(text.word) \in navigationWords THEN NoLink
     ELSE [href |-> url.href, word |-> text.word, length |-> text.length]

\* every link is taken, seen before or not
addIfNewUnchecked(link, seenHrefs) ==
  [link |-> link, seenHrefs |-> seenHrefs \cup {link.href}]

\* the link and the hrefs seen after the call
addIfNew(link, seenHrefs) ==
  IF link = NoLink \/ link.href \in seenHrefs
  THEN [link |-> NoLink, seenHrefs |-> seenHrefs]
  ELSE [link |-> link, seenHrefs |-> seenHrefs \cup {link.href}]

\* container.querySelector: the place of the first anchor of the set, 0
\* when there is none
First(places) ==
  IF places = {} THEN 0 ELSE CHOOSE i \in places : \A j \in places : i <= j

NoMainLink == [link |-> NoLink, element |-> 0]

\* the first link with a prominent text that makes a link
prominentLink(container) ==
  LET a == container.anchors
      el == First({i \in 1..Len(a) :
                     /\ a[i].length >= prominentTextMin
                     /\ createLink(a[i].href, Text(a[i])) # NoLink})
  IN IF el = 0 THEN NoMainLink
     ELSE [link |-> createLink(a[el].href, Text(a[el])), element |-> el]

\* findMainLink that looks for a prominent link only
findMainLinkProminentOnly(container) == prominentLink(container)

\* the main link of the container and the place of its element
findMainLink(container) ==
  LET a == container.anchors
      ariaLink == First({i \in 1..Len(a) : a[i].label # NoText})
      headingInLink == First({i \in 1..Len(a) : a[i].role = "wrapsHeading"})
      heading == First({i \in 1..Len(a) : a[i].role # "plain"})
      labelled == IF ariaLink = 0 THEN NoLink
                  ELSE createLink(a[ariaLink].href, a[ariaLink].label)
      wrapping == IF headingInLink = 0 THEN NoLink
                  ELSE createLink(a[headingInLink].href,
                                  Text(a[headingInLink]))
      \* the heading's parentLink or else its childLink
      around == IF heading = 0 THEN NoLink
                ELSE createLink(a[heading].href, Text(a[heading]))
  IN IF labelled # NoLink THEN [link |-> labelled, element |-> ariaLink]
     ELSE IF wrapping # NoLink
     THEN [link |-> wrapping, element |-> headingInLink]
     ELSE IF around # NoLink THEN [link |-> around, element |-> heading]
     ELSE prominentLink(container)

\* the sub-links of the anchors from place i on, and the hrefs seen
RECURSIVE findSubLinks(_, _, _, _)
findSubLinks(container, mainLinkEl, i, seenHrefs) ==
  IF i > Len(container.anchors)
  THEN [subs |-> << >>, seenHrefs |-> seenHrefs]
  ELSE IF i = mainLinkEl \/ container.anchors[i].label # NoText
  THEN findSubLinks(container, mainLinkEl, i + 1, seenHrefs)
  ELSE LET a == container.anchors[i]
           added == addIfNew(createLink(a.href, Text(a)), seenHrefs)
           rest == findSubLinks(container, mainLinkEl, i + 1,
                                added.seenHrefs)
       IN [subs |-> IF added.link = NoLink THEN rest.subs
                    ELSE << added.link >> \o rest.subs,
           seenHrefs |-> rest.seenHrefs]

\* the items of the container (none or one) and the hrefs seen
processContainer(container, seenHrefs) ==
  LET mainResult == findMainLink(container)
      main == addIfNew(mainResult.link, seenHrefs)
      found == findSubLinks(container, mainResult.element, 1,
                            main.seenHrefs)
  IN IF main.link = NoLink
     THEN [items |-> << >>, seenHrefs |-> main.seenHrefs]
     ELSE [items |-> << [main |-> main.link, subs |-> found.subs] >>,
           seenHrefs |-> found.seenHrefs]

\* the text of the heading: that of the link it carries, or a short word
headingText(heading) ==
  IF heading.anchors = << >> THEN [word |-> "News", length |-> 4]
  ELSE Text(heading.anchors[1])

checkSectionHeader(heading) ==
  LET text == headingText(heading)
  IN IF text.length = 0 \/ text.length > sectionTextMax
     THEN [isSection |-> FALSE, href |-> NoHref, text |-> NoText]
     ELSE [isSection |-> TRUE,
           href |-> IF heading.anchors = << >> THEN NoHref
                    ELSE URL(heading.anchors[1].href).href,
           text |-> text]

NoSection == [title |-> NoText, titleHref |-> NoHref, items |-> << >>]

\* the current section is saved with or without items
pushedAlways(w) == Append(w.sections, w.currentSection)

\* the sections with the current one, when it has items
pushed(w) ==
  IF w.currentSection.items = << >> THEN w.sections
  ELSE Append(w.sections, w.currentSection)

startNewSection(w, title, titleHref) ==
  [w EXCEPT !.sections = pushed(w),
            !.currentSection = [title |-> title, titleHref |-> titleHref,
                                items |-> << >>]]

\* the tree walk over the nodes from place i on
RECURSIVE walk(_, _, _)
walk(nodes, i, w) ==
  IF i > Len(nodes) THEN w
  ELSE IF nodes[i].kind = "h2"
  THEN LET sectionInfo == checkSectionHeader(nodes[i])
       IN walk(nodes, i + 1,
               IF sectionInfo.isSection
               THEN startNewSection(w, sectionInfo.text, sectionInfo.href)
               ELSE w)
  ELSE IF nodes[i].kind = "container"
  THEN LET item == processContainer(nodes[i], w.seenHrefs)
       IN walk(nodes, i + 1,
               [w EXCEPT !.currentSection.items = @ \o item.items,
                         !.seenHrefs = item.seenHrefs])
  ELSE walk(nodes, i + 1, w)

\* the sections the walk leaves, the last one saved, and the hrefs seen
traverse(nodes) ==
  LET walked == walk(nodes, 1, [sections |-> << >>,
                                currentSection |-> NoSection,
                                seenHrefs |-> {}])
  IN [sections |-> pushed(walked), seenHrefs |-> walked.seenHrefs]

\* mainContent.querySelectorAll('a[href]')
RECURSIVE allLinks(_)
allLinks(nodes) ==
  IF nodes = << >> THEN << >>
  ELSE Head(nodes).anchors \o allLinks(Tail(nodes))

\* the fallback pass over the anchors from place i on
RECURSIVE fallbackItems(_, _, _)
fallbackItems(links, i, seenHrefs) ==
  IF i > Len(links) THEN << >>
  ELSE LET added == addIfNew(createLink(links[i].href, Text(links[i])),
                             seenHrefs)
           rest == fallbackItems(links, i + 1, added.seenHrefs)
       IN IF added.link # NoLink /\ added.link.length >= fallbackTextMin
          THEN << [main |-> added.link, subs |-> << >>] >> \o rest
          ELSE rest

RECURSIVE totalItems(_)
totalItems(sections) ==
  IF sections = << >> THEN 0
  ELSE Len(Head(sections).items) + totalItems(Tail(sections))

\* the sections with the items of the fallback pass, which go to a new
\* untitled section or to the end of the last one
fallbackPass(sections, fallback) ==
  IF totalItems(sections) < fallbackThreshold /\ fallback # << >>
  THEN IF sections = << >>
       THEN << [NoSection EXCEPT !.items = fallback] >>
       ELSE [sections EXCEPT ![Len(sections)].items = @ \o fallback]
  ELSE sections

\* the sections of the ListingData
extractListing(nodes) ==
  LET traversed == traverse(nodes)
  IN fallbackPass(traversed.sections,
                  fallbackItems(allLinks(nodes), 1, traversed.seenHrefs))

\* the page has loaded and nothing has read it yet
ExtractInit ==
  /\ MainIdle
  /\ PositionsIdle
  /\ ClassifyIdle
  /\ SanitizeIdle
  /\ PanelIdle
  /\ ResizeIdle
  /\ OriginsIdle
  /\ \/ \E n \in 1..MaxNodes : mainContent \in [1..n -> Nodes]
     \/ mainContent \in FrontPages
  /\ extracted = "none"

\* activateListingMode extracts the listing of the page
ExtractListing ==
  /\ extracted = "none"
  /\ extracted' = extractListing(mainContent)
  /\ UNCHANGED << originVars, mainVars, positionVars, classifyVars, sanitizeVars,
                  panelVars, resizeVars, mainContent >>

ExtractNext == ExtractListing

SpecExtract == ExtractInit /\ [][ExtractNext]_vars

\* the hrefs of the main links and sub-links of all sections, in order
RECURSIVE itemHrefs(_)
itemHrefs(items) ==
  IF items = << >> THEN << >>
  ELSE LET subs == Head(items).subs
       IN << Head(items).main.href >>
            \o [j \in 1..Len(subs) |-> subs[j].href]
            \o itemHrefs(Tail(items))

RECURSIVE listingHrefs(_)
listingHrefs(sections) ==
  IF sections = << >> THEN << >>
  ELSE itemHrefs(Head(sections).items) \o listingHrefs(Tail(sections))

\* C20: no href appears twice among the main links and sub-links of the
\* sections extractListing returns, fallback links included
C20_HrefsUnique ==
  extracted # "none" =>
    LET hrefs == listingHrefs(extracted)
    IN \A i, j \in 1..Len(hrefs) : hrefs[i] = hrefs[j] => i = j

\* two anchors of the page resolve to one href, and both the walk and the
\* fallback pass have contributed links
C20_Witness ==
  /\ extracted # "none"
  /\ \E i, j \in 1..Len(allLinks(mainContent)) :
       LET a == allLinks(mainContent)[i]
           b == allLinks(mainContent)[j]
       IN /\ i # j
          /\ a.href # b.href
          /\ createLink(a.href, Text(a)) # NoLink
          /\ createLink(a.href, Text(a)).href
               = createLink(b.href, Text(b)).href
  /\ \E k \in 1..Len(mainContent) :
       /\ mainContent[k].kind = "container"
       /\ findMainLink(mainContent[k]).element # 0
  /\ \E k \in 1..Len(mainContent) : mainContent[k].kind = "a"
  /\ Len(listingHrefs(extracted)) >= 2

(***************************************************************************)
(* The settings panel: the font size slider, the size buttons and the      *)
(* line height slider.  The line height is kept in tenths.                 *)
(***************************************************************************)
minFontSize == 14

maxFontSize == 32

fontStep == 2

\* the values the font size slider is moved to
FontSizes == minFontSize..maxFontSize

\* the values the line height slider is moved to, 1.4 to 2.2
LineHeights == 14..22

\* the click handler of a size button
sizeButton(size, action) ==
  IF action = "increase" /\ size < maxFontSize THEN size + fontStep
  ELSE IF action = "decrease" /\ size > minFontSize THEN size - fontStep
  ELSE size

\* an article is displayed on its first page and nothing is pending
ReaderShown ==
  /\ isReaderActive = TRUE
  /\ isListingMode = FALSE
  /\ readerOverlay = "created"
  /\ articleData = "data"
  /\ listingData = "null"
  /\ docTitle = "article"
  /\ bodyOverflow = "hidden"
  /\ overlayAttached = TRUE
  /\ overlayDisplay = "block"
  /\ readerInit = TRUE
  /\ content = "article"
  /\ notification = "none"
  /\ totalPages = MaxCols
  /\ currentPage = 0
  /\ pageWidth = 30 + columnGap
  /\ settings = [listingModeEnabled |-> TRUE]
  /\ contentOffset = 0
  /\ pageIndicator = <<1, totalPages>>
  /\ exactWidth = ColumnsWidth(30, MaxCols)
  /\ measured = [viewportWidth |-> 30, scrollWidth |-> exactWidth]
  /\ page = [isArticle |-> TRUE, extract |-> "ok", listing |-> "empty"]
  /\ readerEnabledOrigins = {Origin}
  /\ readingPosition = [page |-> 0, totalPages |-> totalPages]
  /\ readerSettings = [listingModeEnabled |-> TRUE]
  /\ storageQ = << >>
  /\ fetchPending = NoFetch
  /\ rafQ = << >>
  /\ settingsTimers = 0
  /\ resizeTimeout = FALSE
  /\ autoTimer = "none"
  /\ lastEvent = Event("frame", 0, TRUE)

\* the settings panel of the shown reader holds the defaults
PanelInit ==
  /\ ReaderShown
  /\ PositionsIdle
  /\ ClassifyIdle
  /\ SanitizeIdle
  /\ ExtractIdle
  /\ PanelIdle
  /\ ResizeIdle
  /\ OriginsIdle

\* the font size slider is moved to a value and released
FontSizeSlider ==
  /\ Usable /\ ~Busy
  /\ \E value \in FontSizes : fontSize' = value
  /\ CommitMain(saveSettings(applySettings(S)), Event("fontSize", 0, FALSE))
  /\ UNCHANGED << originVars, positionVars, classifyVars, sanitizeVars, extractVars,
                  resizeVars, lineHeight >>

\* a size button is clicked
SizeButton ==
  /\ Usable /\ ~Busy
  /\ \E action \in {"increase", "decrease"} :
       fontSize' = sizeButton(fontSize, action)
  /\ CommitMain(saveSettings(applySettings(S)), Event("sizeBtn", 0, FALSE))
  /\ UNCHANGED << originVars, positionVars, classifyVars, sanitizeVars, extractVars,
                  resizeVars, lineHeight >>

\* the line height slider is moved to a value and released
LineHeightSlider ==
  /\ Usable /\ ~Busy
  /\ \E value \in LineHeights : lineHeight' = value
  /\ CommitMain(saveSettings(applySettings(S)), Event("lineHeight", 0, FALSE))
  /\ UNCHANGED << originVars, positionVars, classifyVars, sanitizeVars, extractVars,
                  resizeVars, fontSize >>

PanelNext ==
  \/ FontSizeSlider
  \/ SizeButton
  \/ LineHeightSlider
  \/ ServeStorage
  \/ SettingsTimer

SpecPanel == PanelInit /\ [][PanelNext]_vars

\* C22: the font size stays within 14 to 32 pixels under size-button clicks
\* and slider inputs within the range
C22_FontSizeInRange == minFontSize <= fontSize /\ fontSize <= maxFontSize

\* C23: a typography change made while the reader is Active, in article or
\* listing mode, schedules a layout run, and a navigation runs no layout
C23_TypographyRunsLayout ==
  [][ /\ (lastEvent'.op = "typography" /\ isReaderActive)
           => settingsTimers' = settingsTimers + 1
      /\ lastEvent'.op \in {"nextPage", "prevPage", "goToPage"}
           => measured' = measured /\ totalPages' = totalPages ]_vars

\* C24: no layout measures the content while a frame callback of the
\* render that attached it is still to run, whichever callback starts it
C24_MeasuredAfterTwoFrames ==
  [][ lastEvent'.op \in {"settingsTimer", "resizeTimer"} => rafQ = << >> ]_vars

Navigations == {"nextPage", "prevPage", "goToPage", "loadPosition"}

LayoutFrame ==
  /\ lastEvent'.op = "frame"
  /\ \E i \in 1..Len(rafQ) : rafQ[i] \in {"article2", "listing2"}

\* C26: nextPage, prevPage and goToPage change neither totalPages nor the
\* page stride and measure nothing, and after every layout or navigation
\* the content offset is currentPage times the stride and the indicator
\* shows currentPage + 1 of totalPages
C26_NavigationTranslates ==
  [][ /\ lastEvent'.op \in Navigations
           => /\ totalPages' = totalPages
              /\ pageWidth' = pageWidth
              /\ measured' = measured
              /\ exactWidth' = exactWidth
      /\ \/ lastEvent'.op \in Navigations \cup {"settingsTimer", "resizeTimer"}
         \/ LayoutFrame
           => /\ contentOffset' = currentPage' * pageWidth'
              /\ pageIndicator' = << currentPage' + 1, totalPages' >> ]_vars

\* a navigation has moved the content to a page other than the first
C26_Witness ==
  /\ lastEvent.op \in {"nextPage", "goToPage"}
  /\ currentPage > 0
  /\ contentOffset = currentPage * pageWidth
  /\ contentOffset > 0

(***************************************************************************)
(* Resize debounce                                                         *)
(***************************************************************************)
\* the delay of the resize timer in ms
resizeDelay == 150

\* clearTimeout: the timer with that id, if still pending, is cancelled
clearTimeout(pending, id) == { t \in pending : t.id # id }

\* setTimeout: a timer with a new id becomes pending
setTimeout(pending, id, due) == pending \cup { [id |-> id, due |-> due] }

\* a listener that arms a timer without cancelling the one before
onResizeUncleared(pending, id, at) ==
  setTimeout(pending, id + 1, at + resizeDelay)

\* the resize listener: the timer of the event before is cancelled and a
\* new one is armed
onResize(pending, id, at) ==
  setTimeout(clearTimeout(pending, id), id + 1, at + resizeDelay)

ResizeEvents == SelectSeq(resizeLog, LAMBDA e : e.kind = "resize")

\* the reader is shown, no resize has happened yet
ResizeInit ==
  /\ ReaderShown
  /\ PositionsIdle
  /\ ClassifyIdle
  /\ SanitizeIdle
  /\ ExtractIdle
  /\ PanelIdle
  /\ ResizeIdle
  /\ OriginsIdle

\* the window is resized and the listener runs
ResizeEvent ==
  /\ readerInit
  /\ Len(ResizeEvents) < MaxResizes
  /\ timers' = onResize(timers, resizeTimeoutId, clock)
  /\ resizeTimeoutId' = resizeTimeoutId + 1
  /\ resizeLog' = Append(resizeLog, [kind |-> "resize", at |-> clock])
  /\ CommitMain(resizeListener(S), Event("resize", 0, FALSE))
  /\ UNCHANGED << originVars, positionVars, classifyVars, sanitizeVars, extractVars,
                  panelVars, clock >>

\* a timer that is due runs setupPagination
TimerFires ==
  /\ \E t \in timers :
       /\ t.due <= clock
       /\ timers' = timers \ {t}
  /\ \E r \in Readings(S) :
       CommitMain(resizeTimer(S, r), Event("resizeTimer", 0, Same(r)))
  /\ resizeLog' = Append(resizeLog, [kind |-> "layout", at |-> clock])
  /\ UNCHANGED << originVars, positionVars, classifyVars, sanitizeVars, extractVars,
                  panelVars, clock, resizeTimeoutId >>

\* time passes; a timer that is due runs before the clock moves on
ClockTick ==
  /\ clock < MaxClock
  /\ \A t \in timers : t.due > clock
  /\ clock' = clock + ClockStep
  /\ UNCHANGED << originVars, mainVars, positionVars, classifyVars, sanitizeVars,
                  extractVars, panelVars, timers, resizeTimeoutId,
                  resizeLog >>

ResizeNext ==
  \/ ResizeEvent
  \/ TimerFires
  \/ ClockTick
  \/ ServeStorage

SpecResize == ResizeInit /\ [][ResizeNext]_vars

\* C27: a burst of resize events less than 150 ms apart causes exactly one
\* layout run, after its last event: a layout run follows a resize event
\* directly and at least 150 ms later, and after the last event of a burst
\* one timer is pending until it runs
C27_ResizeDebounced ==
  /\ \A i \in 1..Len(resizeLog) :
       resizeLog[i].kind = "layout" =>
         /\ i > 1
         /\ resizeLog[i - 1].kind = "resize"
         /\ resizeLog[i].at >= resizeLog[i - 1].at + resizeDelay
  /\ resizeLog # << >> =>
       LET last == resizeLog[Len(resizeLog)]
       IN  IF last.kind = "resize"
           THEN /\ timers = { [id |-> resizeTimeoutId,
                               due |-> last.at + resizeDelay] }
                /\ clock < last.at + resizeDelay + ClockStep
           ELSE timers = {}

\* three events less than 150 ms apart were followed by one layout run
C27_Witness ==
  /\ Len(resizeLog) = 4
  /\ \A i \in 1..3 : resizeLog[i].kind = "resize"
  /\ \A i \in 1..2 : resizeLog[i + 1].at - resizeLog[i].at < resizeDelay
  /\ resizeLog[1].at < resizeLog[3].at
  /\ resizeLog[4].kind = "layout"

(***************************************************************************)
(* The response to TOGGLE_READER                                           *)
(***************************************************************************)
\* the step in which the promise of toggleReaderMode resolves and the
\* response, with isActive read from isReaderActive, is sent
TogglePromiseResolves ==
  \/ lastEvent'.op = "toggle" /\ (isReaderActive \/ page.isArticle)
  \/ lastEvent'.op = "toggleSettings"

\* C28: the response to a TOGGLE_READER message is sent only after the
\* toggle has completed, so that its isActive is the state the toggle
\* settles in: no activation started by the toggle is still running when
\* the response is sent
C28_ResponseAfterToggle ==
  [][ TogglePromiseResolves => fetchPending'.by # "toggle" ]_vars
(***************************************************************************)
(* The links of a listing                                                  *)
(***************************************************************************)
\* a link to a fragment of the page itself
SamePageFragment(href) ==
  /\ href.origin = Origin
  /\ href.path = LocationPath
  /\ href.hash # "none"

\* what link validation asks of a link
Validated(href, text) ==
  /\ text.length >= 5
  /\ text.length <= 400
  /\ href.origin # "javascript:"
  /\ ~SamePageFragment(href)
  /\ lowerCase(text.word) \notin navigationWords

ItemsValidated(items) ==
  \A i \in 1..Len(items) :
    /\ Validated(items[i].main.href, Text(items[i].main))
    /\ \A j \in 1..Len(items[i].subs) :
         Validated(items[i].subs[j].href, Text(items[i].subs[j]))

\* C21: every link of the ListingData, an item's main link, a sub-link or a
\* section's title link, has passed link validation: a text of 5 to 400
\* characters that is no navigation phrase, and an href that is neither a
\* script URL nor a fragment of the page itself
C21_LinksValidated ==
  extracted # "none" =>
    \A k \in 1..Len(extracted) :
      /\ ItemsValidated(extracted[k].items)
      /\ extracted[k].titleHref # NoHref =>
           Validated(extracted[k].titleHref, extracted[k].title)

(***************************************************************************)
(* The main link of a container                                            *)
(***************************************************************************)
\* the places of the links of each priority level: with an aria-label,
\* wrapping a heading, around or inside a heading, with a prominent text
Matching(container) ==
  LET a == container.anchors
  IN << {i \in 1..Len(a) : a[i].label # NoText},
        {i \in 1..Len(a) : a[i].role = "wrapsHeading"},
        {i \in 1..Len(a) : a[i].role # "plain"},
        {i \in 1..Len(a) : a[i].length >= prominentTextMin} >>

\* at the first three levels the first match only
FirstMatching(container) ==
  LET m == Matching(container)
  IN [l \in 1..4 |-> IF l = 4 THEN m[l] ELSE {First(m[l])} \ {0}]

\* the link the candidate at place i makes at level l: the aria-label is
\* its text at the first level
CandidateLink(container, l, i) ==
  LET a == container.anchors[i]
  IN createLink(a.href, IF l = 1 THEN a.label ELSE Text(a))

\* the link of the first surviving candidate of the highest level that has
\* one
FirstSurviving(container, candidates) ==
  LET ok(l) == {i \in candidates[l] :
                  CandidateLink(container, l, i) # NoLink}
      levels == {l \in 1..4 : ok(l) # {}}
  IN IF levels = {} THEN NoLink
     ELSE CandidateLink(container, First(levels), First(ok(First(levels))))

MainLinkIs(candidates(_)) ==
  extracted # "none" =>
    /\ \A k \in 1..Len(mainContent) :
         mainContent[k].kind = "container" =>
           findMainLink(mainContent[k]).link
             = FirstSurviving(mainContent[k], candidates(mainContent[k]))
    /\ (Len(mainContent) = 1 /\ mainContent[1].kind = "container"
          /\ FirstSurviving(mainContent[1], candidates(mainContent[1]))
               # NoLink)
         => extracted[1].items[1].main
              = FirstSurviving(mainContent[1], candidates(mainContent[1]))

\* C29 as stated: the main link of a container is the first candidate that
\* survives validation in the priority order, and a candidate of a lower
\* level is chosen only when every link matching a higher level fails
C29_MainLinkByPriority == MainLinkIs(Matching)

\* C29 as amended: the same with one candidate at each of the first three
\* levels, the first link matching it, and every prominent link a
\* candidate of the fourth
C29_MainLinkByFirstMatch == MainLinkIs(FirstMatching)

\* the first labelled link of a container failed validation and a link of
\* a lower level became the main link of its item
C29_Witness ==
  /\ extracted # "none"
  /\ Len(mainContent) = 1
  /\ mainContent[1].kind = "container"
  /\ LET m == FirstMatching(mainContent[1])
     IN /\ m[1] # {}
        /\ \A i \in m[1] : CandidateLink(mainContent[1], 1, i) = NoLink
  /\ extracted # << >>
  /\ extracted[1].items[1].main = findMainLink(mainContent[1]).link

(***************************************************************************)
(* The fallback pass                                                       *)
(***************************************************************************)
\* the hrefs of the valid links of the main content with a text of
\* fallbackTextMin characters that the traversal has not used
Unused(nodes) ==
  LET links == allLinks(nodes)
  IN { createLink(links[i].href, Text(links[i])).href :
         i \in {j \in 1..Len(links) :
                  /\ createLink(links[j].href, Text(links[j])) # NoLink
                  /\ links[j].length >= fallbackTextMin} }
       \ traverse(nodes).seenHrefs

\* the items a listing has after those of the traversal: in a single
\* untitled section when the traversal left none, else at the end of the
\* last section, the sections being otherwise those of the traversal
Added(listing, sections) ==
  IF sections = << >>
  THEN IF listing = << >> THEN << >> ELSE listing[1].items
  ELSE SubSeq(listing[Len(listing)].items,
              Len(sections[Len(sections)].items) + 1,
              Len(listing[Len(listing)].items))

AddedInPlace(listing, sections) ==
  IF sections = << >>
  THEN \/ listing = << >>
       \/ /\ Len(listing) = 1
          /\ listing[1].title = NoText
          /\ listing[1].titleHref = NoHref
  ELSE /\ Len(listing) = Len(sections)
       /\ \A k \in 1..Len(sections) :
            /\ listing[k].title = sections[k].title
            /\ listing[k].titleHref = sections[k].titleHref
            /\ Len(listing[k].items) >= Len(sections[k].items)
            /\ SubSeq(listing[k].items, 1, Len(sections[k].items))
                 = sections[k].items
            /\ k < Len(sections) => listing[k].items = sections[k].items

\* C30: the fallback pass runs exactly when the traversal produced fewer
\* than 5 items; it adds every unused valid link with a text of at least
\* 15 characters as an item without sub-links, in an untitled section when
\* there is none and else at the end of the last section; with 5 items or
\* more the result of the traversal is returned unchanged
C30_FallbackAddsUnused ==
  extracted # "none" =>
    LET sections == traverse(mainContent).sections
        added == Added(extracted, sections)
    IN IF totalItems(sections) >= fallbackThreshold
       THEN extracted = sections
       ELSE /\ AddedInPlace(extracted, sections)
            /\ \A i \in 1..Len(added) : added[i].subs = << >>
            /\ {added[i].main.href : i \in 1..Len(added)}
                 = Unused(mainContent)

(***************************************************************************)
(* Section title links                                                     *)
(***************************************************************************)
\* C31: the href of a section's title link is not repeated in the
\* ListingData: it is not the title link of another section and not the
\* main link or a sub-link of an item
C31_TitleLinkNotRepeated ==
  extracted # "none" =>
    \A k \in 1..Len(extracted) :
      extracted[k].titleHref # NoHref =>
        /\ \A j \in 1..Len(extracted) :
             extracted[j].titleHref = extracted[k].titleHref => j = k
        /\ \A i \in 1..Len(listingHrefs(extracted)) :
             listingHrefs(extracted)[i] # extracted[k].titleHref

\* C38: every section of the ListingData has at least one item
C38_NoEmptySection ==
  extracted # "none" =>
    \A k \in 1..Len(extracted) : extracted[k].items # << >>

\* a card was followed by a section header with no item after it, and the
\* listing has the untitled section of the card only
C38_Witness ==
  /\ extracted # "none"
  /\ Len(mainContent) = 2
  /\ mainContent[1].kind = "container"
  /\ mainContent[2].kind = "h2"
  /\ checkSectionHeader(mainContent[2]).isSection
  /\ Len(extracted) = 1
  /\ extracted[1].title = NoText

C33_ActiveIsRendered ==
  isReaderActive =>
    /\ overlayAttached
    /\ readerInit
    /\ content = IF isListingMode THEN "listing" ELSE "article"

(***************************************************************************)
(* The listing-mode flag                                                   *)
(***************************************************************************)
\* C34: whenever the coordinator is Inactive and no activation is in
\* progress, isListingMode is false, also after a listing activation that
\* failed while the overlay was created
C34_ListingFlagFollowsState ==
  (~isReaderActive /\ ~ActivationInProgress) => ~isListingMode

(***************************************************************************)
(* C35: deactivation by the user                                           *)
(***************************************************************************)
\* the event before this state was a close or a toggle that found the
\* reader Active and deactivated it
DeactivatedByUser ==
  /\ lastEvent.op \in {"close", "toggle"}
  /\ lastEvent.flag
  /\ ~isReaderActive

\* C35: once the user has deactivated the reader the coordinator stays
\* Inactive until the next toggle signal: the step that follows the
\* deactivation, when it is not a toggle signal, leaves it Inactive, so no
\* pending timer or callback re-activates the reader
C35_StaysInactive ==
  [][ (DeactivatedByUser /\ lastEvent'.op # "toggle") => ~isReaderActive' ]_vars

(***************************************************************************)
(* C36: events received while Inactive                                     *)
(***************************************************************************)
\* the requests of saveReadingPosition waiting in a queue
PositionWrites(q) ==
  Cardinality({ i \in 1..Len(q) : q[i].cont = "savePosition" })

\* the events the claim names: key presses, resize events and timers
InactiveEvents ==
  {"nextPage", "prevPage", "goToPage", "resize", "resizeTimer",
   "settingsTimer"}

\* C36: while the coordinator is Inactive, a key press, a resize event or a
\* timer leaves currentPage and totalPages unchanged and starts no write of
\* a reading position
C36_InactiveIsFrozen ==
  [][ (~isReaderActive /\ lastEvent'.op \in InactiveEvents) =>
        /\ currentPage' = currentPage
        /\ totalPages' = totalPages
        /\ PositionWrites(storageQ') <= PositionWrites(storageQ) ]_vars

(***************************************************************************)
(* C37: overlapping saves of the reading position                          *)
(***************************************************************************)
\* the entry saveReadingPosition would write now
CurrentPosition == [page |-> currentPage, totalPages |-> totalPages]

\* this step applies a write of the reading position and leaves no read or
\* write of saveReadingPosition pending
SavesComplete ==
  /\ lastEvent'.op = "savePosition"
  /\ lastEvent'.flag
  /\ PositionWrites(storageQ') = 0

MaxOps == 2

\* Array.prototype.includes, push, indexOf and splice(index, 1)
includes(list, o) == \E i \in 1..Len(list) : list[i] = o

push(list, o) == Append(list, o)

indexOf(list, o) ==
  IF includes(list, o)
  THEN (CHOOSE i \in 1..Len(list) :
          list[i] = o /\ \A j \in 1..(i - 1) : list[j] # o) - 1
  ELSE -1

splice(list, index) ==
  [i \in 1..(Len(list) - 1) |-> IF i <= index THEN list[i] ELSE list[i + 1]]

TabRequest(o, kind, op, list) ==
  [tab |-> o, kind |-> kind, op |-> op, list |-> list]

\* enableReaderForOrigin after the list has been read: whether the list is
\* written back, and the list
enabledList(list, o) ==
  IF ~includes(list, o)
  THEN [write |-> TRUE, list |-> push(list, o)]
  ELSE [write |-> FALSE, list |-> list]

\* disableReaderForOrigin after the list has been read
disabledList(list, o) ==
  IF indexOf(list, o) # -1
  THEN [write |-> TRUE, list |-> splice(list, indexOf(list, o))]
  ELSE [write |-> FALSE, list |-> list]

OriginsInit ==
  /\ MainIdle
  /\ PositionsIdle
  /\ ClassifyIdle
  /\ SanitizeIdle
  /\ ExtractIdle
  /\ PanelIdle
  /\ ResizeIdle
  /\ storedOrigins \in {<< >>, <<"a">>, <<"b">>, <<"a", "b">>}
  /\ tabQ = << >>
  /\ tabs = [o \in TabOrigins |-> NoOperation]

\* a tab can start an operation: its last one has returned
TabReady(o) == ~tabs[o].busy /\ tabs[o].ops < MaxOps

started(o, op) ==
  [tabs EXCEPT ![o] = [busy |-> TRUE, last |-> op, ops |-> @.ops + 1]]

\* a tab activates the reader: enableReaderForOrigin reads the list
TabEnables ==
  \E o \in TabOrigins :
    /\ TabReady(o)
    /\ tabs' = started(o, "enable")
    /\ tabQ' = Append(tabQ, TabRequest(o, "get", "enable", << >>))
    /\ UNCHANGED << mainVars, positionVars, classifyVars, sanitizeVars,
                    extractVars, panelVars, resizeVars, storedOrigins >>

\* a tab deactivates the reader: disableReaderForOrigin reads the list
TabDisables ==
  \E o \in TabOrigins :
    /\ TabReady(o)
    /\ tabs' = started(o, "disable")
    /\ tabQ' = Append(tabQ, TabRequest(o, "get", "disable", << >>))
    /\ UNCHANGED << mainVars, positionVars, classifyVars, sanitizeVars,
                    extractVars, panelVars, resizeVars, storedOrigins >>

\* storage.local answers the read of a tab: the function continues with
\* the list it was given and writes the changed list back, or returns
TabReads ==
  /\ tabQ # << >>
  /\ Head(tabQ).kind = "get"
  /\ LET q == Head(tabQ)
         r == IF q.op = "enable" THEN enabledList(storedOrigins, q.tab)
              ELSE disabledList(storedOrigins, q.tab)
     IN  IF ~r.write
         THEN /\ tabQ' = Tail(tabQ)
              /\ tabs' = [tabs EXCEPT ![q.tab].busy = FALSE]
         ELSE /\ tabQ' = Append(Tail(tabQ), TabRequest(q.tab, "set", q.op, r.list))
              /\ tabs' = tabs
  /\ UNCHANGED << mainVars, positionVars, classifyVars, sanitizeVars,
                  extractVars, panelVars, resizeVars, storedOrigins >>

\* storage.local applies the write of a tab
TabWrites ==
  /\ tabQ # << >>
  /\ Head(tabQ).kind = "set"
  /\ storedOrigins' = Head(tabQ).list
  /\ tabQ' = Tail(tabQ)
  /\ tabs' = [tabs EXCEPT ![Head(tabQ).tab].busy = FALSE]
  /\ UNCHANGED << mainVars, positionVars, classifyVars, sanitizeVars,
                  extractVars, panelVars, resizeVars >>

OriginsNext ==
  \/ TabEnables
  \/ TabDisables
  \/ TabReads
  \/ TabWrites

SpecOrigins == OriginsInit /\ [][OriginsNext]_vars

\* no operation of a tab is pending
TabsQuiet == tabQ = << >> /\ \A o \in TabOrigins : ~tabs[o].busy

\* C39: registrations of different origins do not interfere: when the
\* operations of the two tabs have completed, an origin whose tab has run an
\* operation is in the list exactly when the last operation of that tab
\* was an enable
C39_OriginsIndependent ==
  TabsQuiet =>
    \A o \in TabOrigins :
      tabs[o].last # "none" =>
        (includes(storedOrigins, o) <=> tabs[o].last = "enable")

====
